---- MODULE Spec2Model ----
(***************************************************************************)
(* Semester/cohort plan page of the education system (PlanPage, the        *)
(* component of src/unnamed/part_005): the in-memory plan of one page      *)
(* session (semesters, semesterSubjects, semesterDates, selectedSemester), *)
(* its event handlers, the load-time class_start reconciliation and the    *)
(* debounced autosave to the student_plans row.                            *)
(*                                                                         *)
(* Conventions.  A year is the number its 4-digit string denotes (all      *)
(* years in the code are 4-digit strings, compared with ===).  A date is   *)
(* the tuple <<y, m, d>> of the string `y-mm-dd`; <<>> is ''.  A Semester  *)
(* record carries id, year, term, class_number (label and months are       *)
(* always '').  A handler is an operator from the rendered page state to   *)
(* the next page state; a page is one browser session of the plan page.    *)
(***************************************************************************)
EXTENDS Integers, Sequences, FiniteSets, TLC

VARIABLES
  page,        \* session -> React state of the PlanPage component
  timers,      \* session -> pending setTimeout callbacks of the autosave effect
  ev,          \* the last handler call and what it answered (alert / silent return)
  classStart,  \* students.class_start of the student: the comma-separated tokens
  db,          \* the student_plans row of the student, or NoPlan
  inflight,    \* upsert requests issued and not yet answered
  hist,        \* bookkeeping of the autosave runs (bursts, writes issued, ...)
  rows         \* the student's rows in the other tables: the student record,
               \* subjects, student_prev_subjects, student_credit_certs, student_dokaksa

vars == <<page, timers, ev, classStart, db, inflight, hist, rows>>

----------------------------------------------------------------------------
(* Bounds of the exploration *)

NumYears == 1     \* years chosen in the add-semester popup: 2025 .. 2025+NumYears-1
MaxNew == 1       \* semesters (and semester ids) the plan may grow beyond the loaded plan
NumClick == 1     \* subjects the user clicks on (student-owned, ids 1..NumClick)

(* Program constants *)

MAX_PER_SEMESTER == 8
MAX_PER_YEAR == 14

----------------------------------------------------------------------------
(* Generic helpers on sequences (Array.prototype.filter / includes / ...) *)

RECURSIVE SelectSeqIdx(_, _, _)
SelectSeqIdx(s, Test(_), i) ==
  IF i > Len(s) THEN <<>>
  ELSE (IF Test(s[i]) THEN <<s[i]>> ELSE <<>>) \o SelectSeqIdx(s, Test, i + 1)

Filter(s, Test(_)) == SelectSeqIdx(s, Test, 1)

Includes(s, x) == \E i \in 1..Len(s) : s[i] = x

Range(s) == {s[i] : i \in 1..Len(s)}

RECURSIVE SumSeq(_)
SumSeq(s) == IF s = <<>> THEN 0 ELSE Head(s) + SumSeq(Tail(s))

RECURSIVE Flat(_)
Flat(ss) == IF ss = <<>> THEN <<>> ELSE Head(ss) \o Flat(Tail(ss))

RECURSIVE SortedKeys(_)
SortedKeys(S) ==
  IF S = {} THEN <<>>
  ELSE LET k == CHOOSE x \in S : \A y \in S : x <= y
       IN  <<k>> \o SortedKeys(S \ {k})

MaxOf(S) == CHOOSE x \in S : \A y \in S : y <= x

(* obj[k] ?? dflt on a Record<number, T> *)
GetOr(obj, k, dflt) == IF k \in DOMAIN obj THEN obj[k] ELSE dflt

(* { ...obj, [k]: v } *)
Put(obj, k, v) == [x \in DOMAIN obj \cup {k} |-> IF x = k THEN v ELSE obj[x]]

(* delete obj[k] *)
Del(obj, k) == [x \in DOMAIN obj \ {k} |-> obj[x]]

EmptyObj == [x \in {} |-> <<>>]

----------------------------------------------------------------------------
(* Types and constants of the page *)

Semester(id, year, term, cn) ==
  [id |-> id, year |-> year, term |-> term, class_number |-> cn]

INITIAL_SEMESTERS == << Semester(0, 2025, 1, 1), Semester(1, 2025, 2, 1) >>

YearInputs == 2025 .. (2025 + NumYears - 1)   \* the part of YEAR_OPTIONS explored

ClickSubjects == 1 .. NumClick

DateInputs == {<<2025, 3, 2>>}   \* the dates typed into a date input

NoPlan == [none |-> TRUE]

NoEvent == [op |-> "none"]

----------------------------------------------------------------------------
(* Derived values of a rendered page p *)

(* semesters.find((s) => s.id === id): the 1-based position, 0 for undefined *)
FindSem(sems, id) ==
  IF \E i \in 1..Len(sems) : sems[i].id = id
  THEN CHOOSE i \in 1..Len(sems) : sems[i].id = id /\ \A j \in 1..(i - 1) : sems[j].id # id
  ELSE 0

(* semesters.filter(s => `${s.year}-${s.term}` === `${year}-${term}`) *)
GroupOf(sems, year, term) ==
  LET InGroup(s) == s.year = year /\ s.term = term
  IN  Filter(sems, InGroup)

(* Object.values(semesterSubjects).flat(): integer keys enumerate ascending *)
assignedIds(p) ==
  LET ks == SortedKeys(DOMAIN p.semesterSubjects)
  IN  Flat([i \in 1..Len(ks) |-> p.semesterSubjects[ks[i]]])

isSubjectUsed(p, subjectId) == Includes(assignedIds(p), subjectId)

(* sems.reduce((sum, s) => sum + (semesterSubjects[s.id] ?? []).length, 0) *)
CountIn(sems, semesterSubjects) ==
  SumSeq([i \in 1..Len(sems) |-> Len(GetOr(semesterSubjects, sems[i].id, <<>>))])

getYearSubjectCount(p, year) ==
  LET InYear(s) == s.year = year
  IN  CountIn(Filter(p.semesters, InYear), p.semesterSubjects)

(* const currentSemester = semesters.find(s => s.id === selectedSemester) ?? semesters[0] *)
currentSemester(p) ==
  LET i == FindSem(p.semesters, p.selectedSemester)
  IN  IF i # 0 THEN p.semesters[i] ELSE p.semesters[1]

selectedGroupSemesters(p) ==
  LET cur == currentSemester(p)
  IN  GroupOf(p.semesters, cur.year, cur.term)

(* selectedGroupSemesters.flatMap(s => semesterSubjects[s.id] ?? []) *)
currentSemesterSubjectIds(p) ==
  LET g == selectedGroupSemesters(p)
  IN  Flat([i \in 1..Len(g) |-> GetOr(p.semesterSubjects, g[i].id, <<>>)])

(* the tabs: one per (year, term) in order of first appearance *)
GroupKeys(sems) == {<<sems[i].year, sems[i].term>> : i \in 1..Len(sems)}

----------------------------------------------------------------------------
(* Handlers of the semester plan *)

(* handleSubjectClick without the isSubjectUsed return *)
handleSubjectClick_NoUsedCheck(p, subjectId) ==
  LET targetSemId == p.selectedSemester
      current     == GetOr(p.semesterSubjects, targetSemId, <<>>)
  IN  [page |-> [p EXCEPT !.semesterSubjects =
                   Put(@, targetSemId, Append(current, subjectId))],
       res |-> "ok"]

(* handleSubjectClick that alerts on a reached cap and assigns all the same *)
handleSubjectClick_AlertOnly(p, subjectId) ==
  IF isSubjectUsed(p, subjectId) THEN [page |-> p, res |-> "used"]
  ELSE
    LET targetSemId == p.selectedSemester
        current     == GetOr(p.semesterSubjects, targetSemId, <<>>)
        ci          == FindSem(p.semesters, targetSemId)
        groupSems   == IF ci = 0 THEN <<>>
                       ELSE GroupOf(p.semesters, p.semesters[ci].year, p.semesters[ci].term)
        groupCount  == CountIn(groupSems, p.semesterSubjects)
        yearCount   == IF ci = 0 THEN 0 ELSE getYearSubjectCount(p, p.semesters[ci].year)
    IN  [page |-> [p EXCEPT !.semesterSubjects =
                     Put(@, targetSemId, Append(current, subjectId))],
         res |-> IF groupCount >= MAX_PER_SEMESTER THEN "group"
                 ELSE IF yearCount >= MAX_PER_YEAR THEN "year" ELSE "ok"]

(* handleSubjectClick: res is how the call ended (used: silent return,
   group / year: the alert shown, ok: the subject was assigned) *)
handleSubjectClick(p, subjectId) ==
  IF isSubjectUsed(p, subjectId) THEN [page |-> p, res |-> "used"]
  ELSE
    LET targetSemId == p.selectedSemester
        current     == GetOr(p.semesterSubjects, targetSemId, <<>>)
        ci          == FindSem(p.semesters, targetSemId)
        groupSems   == IF ci = 0 THEN <<>>
                       ELSE GroupOf(p.semesters, p.semesters[ci].year, p.semesters[ci].term)
        groupCount  == CountIn(groupSems, p.semesterSubjects)
        yearCount   == IF ci = 0 THEN 0 ELSE getYearSubjectCount(p, p.semesters[ci].year)
    IN  IF groupCount >= MAX_PER_SEMESTER THEN [page |-> p, res |-> "group"]
        ELSE IF yearCount >= MAX_PER_YEAR THEN [page |-> p, res |-> "year"]
        ELSE [page |-> [p EXCEPT !.semesterSubjects =
                           Put(@, targetSemId, Append(current, subjectId))],
              res |-> "ok"]

(* the first semester of groupSems, from position i, whose list includes
   subjectId: its position, 0 when none does *)
RECURSIVE FirstHolding(_, _, _, _)
FirstHolding(groupSems, semesterSubjects, subjectId, i) ==
  IF i > Len(groupSems) THEN 0
  ELSE IF Includes(GetOr(semesterSubjects, groupSems[i].id, <<>>), subjectId) THEN i
  ELSE FirstHolding(groupSems, semesterSubjects, subjectId, i + 1)

(* variant: every semester of the plan is searched *)
handleRemoveAssigned_AllGroups(p, semesterId, subjectId) ==
  LET groupSems == p.semesters
      i         == FirstHolding(groupSems, p.semesterSubjects, subjectId, 1)
      NotIt(x)  == x # subjectId
  IN  IF i = 0 THEN p
      ELSE [p EXCEPT !.semesterSubjects =
              Put(@, groupSems[i].id, Filter(@[groupSems[i].id], NotIt))]

handleRemoveAssigned(p, semesterId, subjectId) ==
  LET groupSems == selectedGroupSemesters(p)
      i         == FirstHolding(groupSems, p.semesterSubjects, subjectId, 1)
      NotIt(x)  == x # subjectId
  IN  IF i = 0 THEN p
      ELSE [p EXCEPT !.semesterSubjects =
              Put(@, groupSems[i].id, Filter(@[groupSems[i].id], NotIt))]

(* { ...(prev[semesterId] ?? { start: '', end: '' }), [field]: value } *)
handleDateChange(p, semesterId, field, value) ==
  LET old == GetOr(p.semesterDates, semesterId, [start |-> <<>>, end |-> <<>>])
  IN  [p EXCEPT !.semesterDates =
         Put(@, semesterId, IF field = "start" THEN [old EXCEPT !.start = value]
                                               ELSE [old EXCEPT !.end = value])]

getDefaultDates(year, term) ==
  IF term = 1 THEN [start |-> <<year - 1, 11, 15>>, end |-> <<year, 5, 5>>]
  ELSE [start |-> <<year, 5, 15>>, end |-> <<year, 11, 5>>]

(* variant: the new id is the length of the list *)
NewSemId_Length(sems) == Len(sems)

(* (semesters[semesters.length - 1]?.id ?? -1) + 1 *)
NewSemId(sems) ==
  (IF Len(sems) = 0 THEN -1 ELSE sems[Len(sems)].id) + 1

handleConfirmAddSemester(p, year, term) ==
  LET newId       == NewSemId(p.semesters)
      classNumber == Len(GroupOf(p.semesters, year, term)) + 1
  IN  [p EXCEPT !.semesters = Append(@, Semester(newId, year, term, classNumber)),
                !.semesterDates = Put(@, newId, getDefaultDates(year, term)),
                !.selectedSemester = newId]

handleAddKisu(p) ==
  LET curSem      == currentSemester(p)
      newId       == NewSemId(p.semesters)
      classNumber == Len(GroupOf(p.semesters, curSem.year, curSem.term)) + 1
  IN  [p EXCEPT !.semesters = Append(@, Semester(newId, curSem.year, curSem.term, classNumber)),
                !.semesterDates = Put(@, newId, getDefaultDates(curSem.year, curSem.term))]

(* handleDeleteSemester without the semesters.length <= 1 return *)
DeleteSemesterCall_NoGuard(c, q, semId) ==
  LET Keep(s)   == s.id # semId
      remaining == Filter(c.semesters, Keep)
  IN  [q EXCEPT !.semesters = remaining,
                !.semesterSubjects = Del(@, semId),
                !.semesterDates = Del(@, semId),
                !.selectedSemester = IF c.selectedSemester # semId THEN @
                                     ELSE IF Len(remaining) = 0 THEN 0
                                     ELSE remaining[Len(remaining)].id]

(* One call of handleDeleteSemester made from render c (the closure the
   handler reads semesters and selectedSemester from) when the updates
   queued so far in the same event amount to q: setSemesters and
   setSelectedSemester pass a value, which replaces what is queued;
   setSemesterSubjects and setSemesterDates pass an updater, which applies
   to what is queued. *)
DeleteSemesterCall(c, q, semId) ==
  IF Len(c.semesters) <= 1 THEN q
  ELSE
    LET Keep(s)   == s.id # semId
        remaining == Filter(c.semesters, Keep)
        di        == FindSem(c.semesters, semId)
        lastId    == IF Len(remaining) = 0 THEN 0 ELSE remaining[Len(remaining)].id
        remainingGroup == IF di = 0 THEN <<>>
                          ELSE GroupOf(remaining, c.semesters[di].year, c.semesters[di].term)
        sel == IF c.selectedSemester # semId THEN q.selectedSemester
               ELSE IF di # 0 /\ Len(remainingGroup) > 0 THEN remainingGroup[1].id
               ELSE lastId
    IN  [q EXCEPT !.semesters = remaining,
                  !.semesterSubjects = Del(@, semId),
                  !.semesterDates = Del(@, semId),
                  !.selectedSemester = sel]

handleDeleteSemester(p, semId) == DeleteSemesterCall(p, p, semId)

(* groupSems.forEach(s => handleDeleteSemester(s.id)) in one click event *)
RECURSIVE DeleteEach(_, _, _, _)
DeleteEach(c, q, groupSems, i) ==
  IF i > Len(groupSems) THEN q
  ELSE DeleteEach(c, DeleteSemesterCall(c, q, groupSems[i].id), groupSems, i + 1)

TabDelete(p, year, term) == DeleteEach(p, p, GroupOf(p.semesters, year, term), 1)

(* tab click: groupSems.find(s => s.id === selectedSemester) ? selectedSemester : groupSems[0].id *)
TabSelect(p, year, term) ==
  LET groupSems == GroupOf(p.semesters, year, term)
  IN  [p EXCEPT !.selectedSemester =
         IF FindSem(groupSems, p.selectedSemester) # 0 THEN @ ELSE groupSems[1].id]

(* handleDeleteSubject once the delete has succeeded *)
handleDeleteSubject(p, subjectId) ==
  LET NotIt(x) == x # subjectId
  IN  [p EXCEPT !.subjects = @ \ {subjectId},
                !.semesterSubjects = [k \in DOMAIN @ |-> Filter(@[k], NotIt)]]

----------------------------------------------------------------------------
(* Load: parseClassStart and the reconciliation of the persisted plan with
   class_start.  class_start is modelled after split(','): a sequence of
   tokens, each blank (empty after trim), bad (the pattern
   /(\d{4})년\s*(\d+)학기\s*(\d+)기/ does not match) or ok with the three
   numbers the pattern captures.  null and '' both give no token. *)

BlankTok == [kind |-> "blank"]
BadTok   == [kind |-> "bad"]
OkTok(year, term, cn) == [kind |-> "ok", year |-> year, term |-> term, class_number |-> cn]

(* .flatMap((val, idx) => ...) over the non-blank tokens; idx is 0-based *)
RECURSIVE ParseFrom(_, _)
ParseFrom(toks, i) ==
  IF i > Len(toks) THEN <<>>
  ELSE (IF toks[i].kind = "ok"
        THEN << Semester(i - 1, toks[i].year, toks[i].term, toks[i].class_number) >>
        ELSE <<>>) \o ParseFrom(toks, i + 1)

parseClassStart(cs) ==
  LET NotBlank(t) == t.kind # "blank"
  IN  ParseFrom(Filter(cs, NotBlank), 1)

(* variant: a cohort is recognised only when its id matches as well *)
SameCohort_WithId(a, b) ==
  a.year = b.year /\ a.term = b.term /\ a.class_number = b.class_number /\ a.id = b.id

SameCohort(a, b) ==
  a.year = b.year /\ a.term = b.term /\ a.class_number = b.class_number

HasCohort(sems, cs) == \E i \in 1..Len(sems) : SameCohort(sems[i], cs)

(* variant: nextId is not advanced *)
RECURSIVE AppendMissing_SameId(_, _, _, _)
AppendMissing_SameId(final, csItems, i, nextId) ==
  IF i > Len(csItems) THEN final
  ELSE IF HasCohort(final, csItems[i])
       THEN AppendMissing_SameId(final, csItems, i + 1, nextId)
       ELSE AppendMissing_SameId(
              Append(final, Semester(nextId, csItems[i].year, csItems[i].term,
                                     csItems[i].class_number)),
              csItems, i + 1, nextId)

(* for (const cs of csItems) if (!exists) finalSemesters = [...finalSemesters, { ...cs, id: nextId++ }] *)
RECURSIVE AppendMissing(_, _, _, _)
AppendMissing(final, csItems, i, nextId) ==
  IF i > Len(csItems) THEN final
  ELSE IF HasCohort(final, csItems[i])
       THEN AppendMissing(final, csItems, i + 1, nextId)
       ELSE AppendMissing(
              Append(final, Semester(nextId, csItems[i].year, csItems[i].term,
                                     csItems[i].class_number)),
              csItems, i + 1, nextId + 1)

(* (p.semesters as Semester[]).map((s) => ({ ...s, class_number: s.class_number ?? 1 })) *)
WithClassNumber(sems) ==
  [i \in 1..Len(sems) |->
     Semester(sems[i].id, sems[i].year, sems[i].term,
              IF "class_number" \in DOMAIN sems[i] THEN sems[i].class_number ELSE 1)]

(* finalSemesters of the load effect: plan is planRes.data (NoPlan for null) *)
LoadSemesters(plan, cs) ==
  LET base    == IF plan # NoPlan /\ Len(plan.semesters) > 0
                 THEN WithClassNumber(plan.semesters) ELSE INITIAL_SEMESTERS
      csItems == parseClassStart(cs)
      hasAnyMatch == \E i \in 1..Len(csItems) : HasCohort(base, csItems[i])
  IN  IF Len(csItems) = 0 THEN base
      ELSE IF ~hasAnyMatch /\ plan = NoPlan
           THEN [i \in 1..Len(csItems) |->
                   Semester(i - 1, csItems[i].year, csItems[i].term, csItems[i].class_number)]
           ELSE AppendMissing(base, csItems, 1,
                              MaxOf({base[i].id : i \in 1..Len(base)}) + 1)

(* the subjects table as the page reads it: the student's own subjects
   (ClickSubjects) and the subjects a persisted plan already holds *)
PlanSubjects(plan) ==
  IF plan = NoPlan THEN {}
  ELSE UNION {Range(plan.semester_subjects[k]) : k \in DOMAIN plan.semester_subjects}

(* student === null before the load effect has run *)
NoStudent == [none |-> TRUE]

(* no row in any of the other tables; dokaksaDefault is the default of the
   column student_dokaksa.credit_type, names the subjects.name of the rows
   inserted from the presets *)
NoRows ==
  [student |-> NoStudent, subjects |-> {}, prev |-> <<>>, certs |-> <<>>, dokaksa |-> <<>>,
   dokaksaDefault |-> "null", names |-> << >>]

(* useState initial values; dokaksaStage is dokaksaForm.stage *)
InitialPage ==
  [loading |-> TRUE, semesters |-> INITIAL_SEMESTERS, semesterSubjects |-> EmptyObj,
   semesterDates |-> EmptyObj, selectedSemester |-> 0, subjects |-> {},
   isInitialized |-> FALSE, saveTimer |-> 0,
   student |-> NoStudent, prevSubjects |-> <<>>, creditCerts |-> <<>>,
   dokaksaList |-> <<>>, dokaksaStage |-> 1]

(* the .then(...) of the load effect, and the setTimeout(..., 0) after it *)
LoadPage(p, plan, cs, subjectsTable) ==
  [p EXCEPT !.loading = FALSE,
            !.subjects = IF subjectsTable # {} THEN subjectsTable ELSE @,
            !.semesters = LoadSemesters(plan, cs),
            !.semesterSubjects = IF plan # NoPlan THEN plan.semester_subjects ELSE @,
            !.semesterDates = IF plan # NoPlan THEN plan.semester_dates ELSE @,
            !.isInitialized = TRUE]

----------------------------------------------------------------------------
(* The autosave effect: useEffect(..., [semesters, semesterSubjects,
   semesterDates]).  A timer is [id, snap]: snap is the state the callback
   closed over.  An id is a handle; a new one is the least not in use. *)

Snapshot(p) ==
  [semesters |-> p.semesters, semester_subjects |-> p.semesterSubjects,
   semester_dates |-> p.semesterDates]

(* variant: the pending callback is not cancelled *)
ClearTimeout_Nothing(T, id) == T

ClearTimeout(T, id) ==
  {t \in T : t.id # id}

(* variant: the upsert merges the assignment map of the row with the payload *)
Upsert_Merge(row, snap) ==
  IF row = NoPlan THEN snap
  ELSE [snap EXCEPT !.semester_subjects = snap.semester_subjects @@ row.semester_subjects]

(* .upsert({student_id, semesters, semester_subjects, semester_dates, ...},
   {onConflict: 'student_id'}): the row's three plan columns become the payload's *)
Upsert(row, snap) ==
  snap

FreshTimer(T) == CHOOSE n \in 1..(Cardinality(T) + 1) :
                   /\ \A t \in T : t.id # n
                   /\ \A m \in 1..(n - 1) : \E t \in T : t.id = m

(* the effect run after a render in which one of its dependencies changed:
   the next <<saveTimer.current, pending timers>> *)
AutosaveEffect(p, T) ==
  IF ~p.isInitialized THEN <<p.saveTimer, T>>
  ELSE LET cleared == IF p.saveTimer # 0 THEN ClearTimeout(T, p.saveTimer) ELSE T
           id      == FreshTimer(cleared)
       IN  <<id, cleared \cup {[id |-> id, snap |-> Snapshot(p)]}>>

(* session s renders np after a handler changed a dependency of the effect *)
Commit(s, np) ==
  LET r == AutosaveEffect(np, timers[s])
  IN  /\ page' = [page EXCEPT ![s] = [np EXCEPT !.saveTimer = r[1]]]
      /\ timers' = [timers EXCEPT ![s] = r[2]]

(* session s renders np after a handler changed no dependency of the effect *)
Render(s, np) ==
  /\ page' = [page EXCEPT ![s] = np]
  /\ UNCHANGED timers

----------------------------------------------------------------------------
(* Events of one page session s *)

Ready(s) == ~page[s].loading

(* the exploration adds a semester while the list is less than MaxNew longer
   than the list the page loaded, and the new id less than MaxNew beyond it *)
CanGrow(s) ==
  LET loaded == LoadSemesters(db, classStart)
  IN  /\ Len(page[s].semesters) < Len(loaded) + MaxNew
      /\ NewSemId(page[s].semesters) < NewSemId(loaded) + MaxNew

Load(s) ==
  /\ page[s].loading
  /\ \E early \in BOOLEAN :
       \* the effect of the first render after load runs before (early) or
       \* after the setTimeout(0) that sets isInitialized
       LET np == LoadPage(page[s], db, classStart, ClickSubjects \cup PlanSubjects(db))
       IN  IF early THEN Render(s, np) ELSE Commit(s, np)
  /\ ev' = NoEvent

SubjectClick(s) ==
  /\ Ready(s)
  /\ \E subjectId \in page[s].subjects \cap ClickSubjects :
       LET r == handleSubjectClick(page[s], subjectId)
       IN  /\ IF r.res = "ok" THEN Commit(s, r.page) ELSE Render(s, r.page)
           /\ ev' = [op |-> "click", subject |-> subjectId, res |-> r.res]

(* the remove button of a chip: shown for the subjects of the selected
   group that are in the catalog *)
RemoveAssigned(s) ==
  /\ Ready(s)
  /\ \E subjectId \in Range(currentSemesterSubjectIds(page[s]))
                        \cap page[s].subjects \cap ClickSubjects :
       Commit(s, handleRemoveAssigned(page[s], page[s].selectedSemester, subjectId))
  /\ ev' = NoEvent

(* the date inputs of the cohorts of the selected group *)
DateChange(s) ==
  /\ Ready(s)
  /\ LET g == selectedGroupSemesters(page[s])
     IN  \E i \in 1..Len(g), field \in {"start", "end"}, value \in DateInputs :
           Commit(s, handleDateChange(page[s], g[i].id, field, value))
  /\ ev' = NoEvent

AddSemester(s) ==
  /\ Ready(s)
  /\ CanGrow(s)
  /\ \E year \in YearInputs, term \in {1, 2} :
       Commit(s, handleConfirmAddSemester(page[s], year, term))
  /\ ev' = NoEvent

AddKisu(s) ==
  /\ Ready(s)
  /\ CanGrow(s)
  /\ Commit(s, handleAddKisu(page[s]))
  /\ ev' = NoEvent

(* the delete button of a cohort: shown when the selected group has several *)
DeleteSemester(s) ==
  /\ Ready(s)
  /\ LET g == selectedGroupSemesters(page[s])
     IN  /\ Len(g) > 1
         /\ \E i \in 1..Len(g) : Commit(s, handleDeleteSemester(page[s], g[i].id))
  /\ ev' = NoEvent

(* the delete button of a tab: shown when semesters.length > groupSems.length *)
DeleteGroup(s) ==
  /\ Ready(s)
  /\ \E key \in GroupKeys(page[s].semesters) :
       /\ Len(page[s].semesters) > Len(GroupOf(page[s].semesters, key[1], key[2]))
       /\ Commit(s, TabDelete(page[s], key[1], key[2]))
  /\ ev' = NoEvent

SelectTab(s) ==
  /\ Ready(s)
  /\ \E key \in GroupKeys(page[s].semesters) :
       Render(s, TabSelect(page[s], key[1], key[2]))
  /\ ev' = NoEvent

(* click on a cohort block: multiKisu && setSelectedSemester(sem.id) *)
SelectKisu(s) ==
  /\ Ready(s)
  /\ LET g == selectedGroupSemesters(page[s])
     IN  /\ Len(g) > 1
         /\ \E i \in 1..Len(g) : Render(s, [page[s] EXCEPT !.selectedSemester = g[i].id])
  /\ ev' = NoEvent

(* the delete button of a student-owned subject, the delete succeeding *)
DeleteSubject(s) ==
  /\ Ready(s)
  /\ \E subjectId \in page[s].subjects \cap ClickSubjects :
       Commit(s, handleDeleteSubject(page[s], subjectId))
  /\ ev' = NoEvent

----------------------------------------------------------------------------
(* Spec: one session editing a plan.  The student has either no plan row or
   a row with three terms, of which 2025-1 holds MAX_PER_SEMESTER subjects and
   year 2025 holds MAX_PER_YEAR, none of them a subject the user clicks on. *)

Ballast(from, n) == [i \in 1..n |-> from + i]

FullPlan ==
  [semesters |-> Append(INITIAL_SEMESTERS, Semester(2, 2026, 1, 1)),
   semester_subjects |->
     (0 :> Ballast(100, MAX_PER_SEMESTER)
      @@ 1 :> Ballast(100 + MAX_PER_SEMESTER, MAX_PER_YEAR - MAX_PER_SEMESTER)),
   semester_dates |-> (2 :> getDefaultDates(2026, 1))]

(* the row the page saves once the first of the two default semesters has
   been deleted *)
TrimmedRow ==
  [semesters |-> << Semester(1, 2025, 2, 1) >>,
   semester_subjects |-> EmptyObj, semester_dates |-> EmptyObj]

NoHist == [none |-> TRUE]

Init ==
  /\ page = [s \in {1} |-> InitialPage]
  /\ timers = [s \in {1} |-> {}]
  /\ ev = NoEvent
  /\ classStart = <<>>
  /\ db \in {NoPlan, FullPlan, TrimmedRow}
  /\ inflight = {}
  /\ hist = NoHist
  /\ rows = NoRows

(* what an event of the page leaves alone: the student record, and the plan
   row and the requests to it, which only the autosave touches *)
Frame == UNCHANGED <<classStart, db, inflight, hist, rows>>

DoLoad == (\E s \in DOMAIN page : Load(s)) /\ Frame
DoSubjectClick == (\E s \in DOMAIN page : SubjectClick(s)) /\ Frame
DoRemoveAssigned == (\E s \in DOMAIN page : RemoveAssigned(s)) /\ Frame
DoAddSemester == (\E s \in DOMAIN page : AddSemester(s)) /\ Frame
DoAddKisu == (\E s \in DOMAIN page : AddKisu(s)) /\ Frame
DoDeleteSemester == (\E s \in DOMAIN page : DeleteSemester(s)) /\ Frame
DoDeleteGroup == (\E s \in DOMAIN page : DeleteGroup(s)) /\ Frame
DoSelectTab == (\E s \in DOMAIN page : SelectTab(s)) /\ Frame
DoSelectKisu == (\E s \in DOMAIN page : SelectKisu(s)) /\ Frame
DoDeleteSubject == (\E s \in DOMAIN page : DeleteSubject(s)) /\ Frame

(* Date edits (DateChange) write semesterDates only, which no handler of
   the plan reads: they are explored with the autosave, under SpecSave. *)
Next ==
  \/ DoLoad
  \/ DoSubjectClick
  \/ DoRemoveAssigned
  \/ DoAddSemester
  \/ DoAddKisu
  \/ DoDeleteSemester
  \/ DoDeleteGroup
  \/ DoSelectTab
  \/ DoSelectKisu
  \/ DoDeleteSubject

Spec == Init /\ [][Next]_vars

----------------------------------------------------------------------------
(* Properties of the plan under Spec *)

NoDup(q) == \A i, j \in 1..Len(q) : q[i] = q[j] => i = j

(* the semesters (positions) whose assignment list holds subjectId *)
HoldersOf(p, subjectId) ==
  {i \in 1..Len(p.semesters) :
     Includes(GetOr(p.semesterSubjects, p.semesters[i].id, <<>>), subjectId)}

SubjectsUnique(p) ==
  /\ NoDup(assignedIds(p))
  /\ \A subjectId \in Range(assignedIds(p)) : Cardinality(HoldersOf(p, subjectId)) <= 1

(* C1: every subject id appears in at most one semester's assignment list and
   at most once in it, in every state of the page after load; and a click on
   a subject that is already assigned changes neither the page nor the
   pending autosave. *)
C1_GlobalUniqueness ==
  /\ [](\A s \in DOMAIN page : Ready(s) => SubjectsUnique(page[s]))
  /\ [][\A s \in DOMAIN page :
          (ev'.op = "click" /\ isSubjectUsed(page[s], ev'.subject))
            => (page' = page /\ timers' = timers)]_vars

C1_Witness ==
  /\ ev.op = "click" /\ ev.res = "used"
  /\ Includes(assignedIds(page[1]), ev.subject)

(* the subjects assigned to the semesters of group (year, term) *)
GroupCount(p, year, term) == CountIn(GroupOf(p.semesters, year, term), p.semesterSubjects)

(* C2 (as claimed): for every (year, term) half-year group the number of
   subject ids assigned, summed over the semesters of the group, is at most
   8 in every state after load. *)
C2_GroupCapHolds ==
  \A s \in DOMAIN page :
    Ready(s) => \A key \in GroupKeys(page[s].semesters) :
                  GroupCount(page[s], key[1], key[2]) <= MAX_PER_SEMESTER

(* C3 (as claimed): for every year the number of subject ids assigned, summed
   over all semesters of the year, is at most 14 in every state after load. *)
C3_YearCapHolds ==
  \A s \in DOMAIN page :
    Ready(s) => \A key \in GroupKeys(page[s].semesters) :
                  getYearSubjectCount(page[s], key[1]) <= MAX_PER_YEAR

(* the conditions under which the claim says assignSubject is rejected *)
RejectCond(p, subjectId) ==
  \/ isSubjectUsed(p, subjectId)
  \/ LET ci == FindSem(p.semesters, p.selectedSemester)
     IN  /\ ci # 0
         /\ \/ GroupCount(p, p.semesters[ci].year, p.semesters[ci].term) >= MAX_PER_SEMESTER
            \/ getYearSubjectCount(p, p.semesters[ci].year) >= MAX_PER_YEAR

(* C4: a click on a subject that is already assigned, or made while the
   selected semester's group holds 8 or its year holds 14, leaves semesters,
   the assignment map, the dates map and the selection as they were and
   schedules no autosave (saveTimer and the pending timers are unchanged). *)
C4_RejectedAssignIsNoOp ==
  [][\A s \in DOMAIN page :
       (ev'.op = "click" /\ RejectCond(page[s], ev'.subject))
         => (page'[s] = page[s] /\ timers'[s] = timers[s])]_vars

(* a click rejected by the year cap while the group holds fewer than 8 *)
C4_Witness ==
  /\ ev.op = "click" /\ ev.res = "year"
  /\ LET p == page[1]
         ci == FindSem(p.semesters, p.selectedSemester)
     IN  /\ ci # 0
         /\ GroupCount(p, p.semesters[ci].year, p.semesters[ci].term) < MAX_PER_SEMESTER
         /\ ~isSubjectUsed(p, ev.subject)

(* C5: after load the plan holds at least one semester, and
   handleDeleteSemester on a plan with exactly one semester changes nothing. *)
C5_AtLeastOneSemester ==
  \A s \in DOMAIN page :
    Ready(s) =>
      /\ Len(page[s].semesters) >= 1
      /\ Len(page[s].semesters) = 1 =>
           handleDeleteSemester(page[s], page[s].semesters[1].id) = page[s]

(* a plan that deletes have brought down to one semester *)
C5_Witness ==
  /\ Ready(1)
  /\ Len(page[1].semesters) = 1
  /\ Len(LoadSemesters(db, classStart)) > 1

----------------------------------------------------------------------------
(* The autosave at work: timers fire, upserts travel and are answered.
   hist counts what happened: loads of the page, edits made, bursts (runs of
   changes that began with no timer pending), changes of the current burst,
   changes (events that ran the autosave effect), writes issued and failed, the sessions whose writes were applied, and the
   write applied last. *)

MaxTokens == 3    \* tokens of class_start
MaxClass == 2     \* class numbers named by class_start: 1 .. MaxClass
MaxLoads == 2     \* times the page is opened
MaxEdits == 3     \* edits made while the autosave runs

NoWrite == [none |-> TRUE]

InitHist ==
  [loads |-> 0, edits |-> 0, changes |-> 0, bursts |-> 0, burstLen |-> 0, issued |-> 0,
   failed |-> 0, applied |-> {}, last |-> NoWrite]

(* hist after an event of session s that was an edit (edit) and ran the
   autosave effect (committed) *)
Track(s, edit, committed) ==
  hist' = [hist EXCEPT
             !.edits    = IF edit THEN @ + 1 ELSE @,
             !.changes  = IF committed THEN @ + 1 ELSE @,
             !.bursts   = IF committed /\ timers[s] = {} THEN @ + 1 ELSE @,
             !.burstLen = IF ~committed THEN @
                          ELSE IF timers[s] = {} THEN 1 ELSE @ + 1]

Budget == hist.edits < MaxEdits

Store == UNCHANGED <<classStart, db, inflight, rows>>

(* the page opens: the load effect and the first render after it *)
SaveLoad ==
  /\ \E s \in DOMAIN page :
       /\ Load(s)
       /\ hist' = [hist EXCEPT
                     !.loads    = @ + 1,
                     !.changes  = IF timers'[s] # {} THEN @ + 1 ELSE @,
                     !.bursts   = IF timers'[s] # {} THEN @ + 1 ELSE @,
                     !.burstLen = IF timers'[s] # {} THEN 1 ELSE @]
  /\ Store

SaveSubjectClick ==
  /\ Budget
  /\ \E s \in DOMAIN page : SubjectClick(s) /\ Track(s, TRUE, ev'.res = "ok")
  /\ Store

SaveRemoveAssigned ==
  /\ Budget
  /\ \E s \in DOMAIN page : RemoveAssigned(s) /\ Track(s, TRUE, TRUE)
  /\ Store

SaveDateChange ==
  /\ Budget
  /\ \E s \in DOMAIN page : DateChange(s) /\ Track(s, TRUE, TRUE)
  /\ Store

SaveAddKisu ==
  /\ Budget
  /\ \E s \in DOMAIN page :
       /\ Ready(s)
       /\ Commit(s, handleAddKisu(page[s]))
       /\ ev' = NoEvent
       /\ Track(s, TRUE, TRUE)
  /\ Store

(* the callback of a pending timer runs: it issues the upsert of the state
   it closed over; saveTimer.current keeps the handle *)
TimerFire ==
  /\ \E s \in DOMAIN page : \E t \in timers[s] :
       /\ timers' = [timers EXCEPT ![s] = @ \ {t}]
       /\ inflight' = inflight \cup
            {[seq |-> hist.issued + 1, session |-> s, snap |-> t.snap]}
  /\ hist' = [hist EXCEPT !.issued = @ + 1]
  /\ ev' = NoEvent
  /\ UNCHANGED <<page, classStart, db, rows>>

(* the store applies an upsert; requests are applied in the order they
   arrive, which need not be the order they were issued *)
WriteApply ==
  /\ \E w \in inflight :
       /\ db' = Upsert(db, w.snap)
       /\ inflight' = inflight \ {w}
       /\ hist' = [hist EXCEPT !.applied = @ \cup {w.session}, !.last = w]
  /\ ev' = NoEvent
  /\ UNCHANGED <<page, timers, classStart, rows>>

(* an upsert fails; the callback does not look at the answer *)
WriteFail ==
  /\ \E w \in inflight :
       /\ inflight' = inflight \ {w}
       /\ hist' = [hist EXCEPT !.failed = @ + 1]
  /\ ev' = NoEvent
  /\ UNCHANGED <<page, timers, classStart, db, rows>>

(* the page is left and opened again: the cleanup of the effect cancels the
   pending timer, the component state starts over; requests under way go on *)
Reopen ==
  /\ hist.loads < MaxLoads
  /\ \E s \in DOMAIN page :
       /\ Ready(s)
       /\ page' = [page EXCEPT ![s] = InitialPage]
       /\ timers' = [timers EXCEPT ![s] =
                       IF page[s].saveTimer # 0 THEN ClearTimeout(@, page[s].saveTimer) ELSE @]
  /\ ev' = NoEvent
  /\ UNCHANGED <<classStart, db, inflight, hist, rows>>

----------------------------------------------------------------------------
(* SpecLoad: the page of a student is opened, saved and opened again, for
   every class_start of up to MaxTokens tokens and a choice of plan rows. *)

Tokens ==
  {BlankTok, BadTok}
    \cup {OkTok(y, t, c) : y \in YearInputs, t \in {1, 2}, c \in 1..MaxClass}

ClassStarts == UNION {[1..n -> Tokens] : n \in 0..MaxTokens}

EmptyRow == [semesters |-> <<>>, semester_subjects |-> EmptyObj, semester_dates |-> EmptyObj]

(* a row saved before class_number existed *)
LegacyRow ==
  [semesters |-> << [id |-> 0, year |-> 2025, term |-> 1],
                    [id |-> 4, year |-> 2025, term |-> 2] >>,
   semester_subjects |-> EmptyObj, semester_dates |-> EmptyObj]

LoadRows == {NoPlan, EmptyRow, LegacyRow, FullPlan, TrimmedRow}

InitLoad ==
  /\ page = [s \in {1} |-> InitialPage]
  /\ timers = [s \in {1} |-> {}]
  /\ ev = NoEvent
  /\ classStart \in ClassStarts
  /\ db \in LoadRows
  /\ inflight = {}
  /\ hist = InitHist
  /\ rows = NoRows

NextLoad ==
  \/ SaveLoad
  \/ TimerFire
  \/ WriteApply
  \/ Reopen

SpecLoad == InitLoad /\ [][NextLoad]_vars

(* the (year, term, class_number) of the semesters of a list, in order *)
Cohorts(sems) ==
  [i \in 1..Len(sems) |-> <<sems[i].year, sems[i].term, sems[i].class_number>>]

(* C6: once the list L that the reconciliation of class_start gave has been
   persisted as the plan, the page shows L whenever it is open and
   reconciling class_start against the persisted plan gives L again: same
   semesters, same order, same ids, whatever tokens class_start holds. *)
C6_ReconcileIdempotent ==
  \A s \in DOMAIN page :
    (Ready(s) /\ hist.last # NoWrite) =>
      /\ db.semesters = page[s].semesters
      /\ LoadSemesters(db, classStart) = db.semesters

(* the page opened a second time on the plan persisted from the first, with
   a class_start that has a malformed and a repeated token and has added a
   cohort to the plan *)
C6_Witness ==
  /\ Ready(1) /\ hist.loads = 2 /\ hist.last # NoWrite
  /\ db.semesters = page[1].semesters
  /\ \E i \in 1..Len(classStart) : classStart[i] = BadTok
  /\ \E i, j \in 1..Len(classStart) :
       i < j /\ classStart[i] = classStart[j] /\ classStart[i].kind = "ok"
         /\ ~HasCohort(INITIAL_SEMESTERS, classStart[i])
         /\ HasCohort(page[1].semesters, classStart[i])
  /\ Len(page[1].semesters) = 3

(* C7 (as claimed): opened with no plan row and a class_start that parses to
   at least one cohort, the page holds exactly the parsed cohorts, in order,
   and so no default seed semester that class_start does not name. *)
C7_NoPlanReplacesSeeds ==
  \A s \in DOMAIN page :
    (Ready(s) /\ db = NoPlan /\ Len(parseClassStart(classStart)) > 0) =>
      Cohorts(page[s].semesters) = Cohorts(parseClassStart(classStart))

----------------------------------------------------------------------------
(* SpecSave: one session that stays open edits the plan while the autosave
   runs; upserts may fail and may arrive in any order. *)

InitSave ==
  /\ page = [s \in {1} |-> InitialPage]
  /\ timers = [s \in {1} |-> {}]
  /\ ev = NoEvent
  /\ classStart = <<>>
  /\ db \in {NoPlan, FullPlan}
  /\ inflight = {}
  /\ hist = InitHist
  /\ rows = NoRows

NextSave ==
  \/ SaveLoad
  \/ SaveSubjectClick
  \/ SaveRemoveAssigned
  \/ SaveDateChange
  \/ SaveAddKisu
  \/ TimerFire
  \/ WriteApply
  \/ WriteFail

SpecSave == InitSave /\ [][NextSave]_vars

(* the one timer a session has pending after a change: it carries the state
   after that change *)
Scheduled(p) == {[id |-> p.saveTimer, snap |-> Snapshot(p)]}

(* C8: at most one timer is pending, and it carries the state after the
   latest change; every change after initialization leaves exactly the timer
   of the state it made; every burst of changes gives exactly one write
   (writes issued plus the timer pending equal the bursts begun), and the
   write a timer issues carries the state after the last change. *)
C8_DebounceCoalesces ==
  /\ [](\A s \in DOMAIN page :
          /\ Cardinality(timers[s]) <= 1
          /\ timers[s] # {} => timers[s] = Scheduled(page[s]))
  /\ [](hist.issued + Cardinality(timers[1]) = hist.bursts)
  /\ [][hist'.changes # hist.changes =>
          \E s \in DOMAIN page :
            /\ page'[s].isInitialized
            /\ timers'[s] = Scheduled(page'[s])
            /\ \A t \in timers[s] : t \in timers'[s] => t \in Scheduled(page'[s])]_vars
  /\ [][\A w \in inflight' \ inflight :
          /\ w.snap = Snapshot(page[w.session])
          /\ timers'[w.session] = {}]_vars

(* a burst of several changes has given one write, which carries the state
   after the last of them *)
C8_Witness ==
  /\ hist.bursts = 1 /\ hist.burstLen >= 2 /\ hist.issued = 1
  /\ timers[1] = {}
  /\ db # Snapshot(page[1])
  /\ \E w \in inflight : w.snap = Snapshot(page[1])

(* C9 (as claimed): once no timer is pending and every write issued has been
   applied, none having failed, the plan row equals the semesters, the
   assignment map and the dates map of the page. *)
C9_LastWriteWins ==
  (/\ Ready(1) /\ timers[1] = {} /\ inflight = {}
   /\ hist.issued >= 1 /\ hist.failed = 0)
    => db = Snapshot(page[1])

----------------------------------------------------------------------------
(* SpecTwo: two sessions open the plan page of the same student; every
   upsert is applied, in any order. *)

InitTwo ==
  /\ page = [s \in {1, 2} |-> InitialPage]
  /\ timers = [s \in {1, 2} |-> {}]
  /\ ev = NoEvent
  /\ classStart = <<>>
  /\ db \in {NoPlan, FullPlan}
  /\ inflight = {}
  /\ hist = InitHist
  /\ rows = NoRows

NextTwo ==
  \/ SaveLoad
  \/ SaveSubjectClick
  \/ SaveRemoveAssigned
  \/ SaveDateChange
  \/ SaveAddKisu
  \/ TimerFire
  \/ WriteApply

SpecTwo == InitTwo /\ [][NextTwo]_vars

(* what a snapshot holds: its assigned subject ids and its semester ids *)
SnapSubjects(snap) ==
  UNION {Range(snap.semester_subjects[k]) : k \in DOMAIN snap.semester_subjects}

SnapSemIds(snap) == {snap.semesters[i].id : i \in 1..Len(snap.semesters)}

(* C10: after a write has been applied the row is the whole snapshot that the
   write applied last carried, whatever the row held and whatever the other
   session holds: a subject assigned or a semester added in another session
   and absent from that snapshot is absent from the row. *)
C10_LastWriterWinsWholeRow ==
  hist.last # NoWrite =>
    /\ db = hist.last.snap
    /\ \A o \in DOMAIN page \ {hist.last.session} :
         /\ (SnapSubjects(Snapshot(page[o])) \ SnapSubjects(hist.last.snap))
              \cap SnapSubjects(db) = {}
         /\ (SnapSemIds(Snapshot(page[o])) \ SnapSemIds(hist.last.snap))
              \cap SnapSemIds(db) = {}

(* both sessions have saved, session 1 last; all is quiet and the subject
   assigned in session 2 is not in the row *)
C10_Witness ==
  /\ hist.applied = {1, 2} /\ hist.last # NoWrite /\ hist.last.session = 1
  /\ inflight = {} /\ timers[1] = {} /\ timers[2] = {} /\ hist.failed = 0
  /\ hist.last.snap = Snapshot(page[1])
  /\ SnapSubjects(Snapshot(page[2])) \ SnapSubjects(db) # {}

----------------------------------------------------------------------------
(* getPlanConfig and the progress figures.  Strings of the code are written
   in ASCII: education levels "HS" (고졸), "drop2" / "drop3" / "drop4"
   (2/3/4년제중퇴), "grad2" / "grad3" / "grad4" (2/3/4년제졸업); degrees
   "bachelor" (학사), "associate" (전문학사), "none" (없음); categories
   "major" (전공), "liberal" (교양), "general" (일반).  Null is null or
   undefined.  A course name is NoName (null or undefined) or a sequence of
   syllables, of which "sil" and "seup" are the two of the marker '실습'. *)

Null == "null"
NoName == << Null >>

JUNGTAE_GROUP == {"HS", "drop2", "drop3", "drop4"}
TWOTHREE_GRAD == {"grad2", "grad3"}
GRAD_ALL == {"grad2", "grad3", "grad4"}

NoPractice == [none |-> TRUE]
NoSubjectTarget == 0

(* name?.includes(marker), marker a sequence of two syllables *)
NameIncludes(name, marker) ==
  /\ name # NoName
  /\ \E i \in 1..(Len(name) - 1) : name[i] = marker[1] /\ name[i + 1] = marker[2]

(* courseName?.includes('실습') *)
HasPracticeMarker(courseName) ==
  NameIncludes(courseName, <<"sil", "seup">>)

PlanTarget(label, target) == [label |-> label, categories |-> <<label>>, target |-> target]

(* variant: the practicum branch is tried after the education-level branches *)
getPlanConfig_LevelFirst(educationLevel, courseName, desiredDegree) ==
  LET level == IF educationLevel = Null THEN "" ELSE educationLevel
  IN  IF level \in JUNGTAE_GROUP
      THEN [isHighSchool |-> TRUE, totalTarget |-> 80, subjectTarget |-> NoSubjectTarget,
            targets |-> << PlanTarget("major", 45), PlanTarget("liberal", 15),
                           PlanTarget("general", 20) >>,
            practice |-> NoPractice]
      ELSE IF HasPracticeMarker(courseName)
      THEN [isHighSchool |-> FALSE, totalTarget |-> 6, subjectTarget |-> 6,
            targets |-> << PlanTarget("major", 6) >>,
            practice |-> [required |-> 4, elective |-> 2]]
      ELSE [isHighSchool |-> FALSE, totalTarget |-> 51, subjectTarget |-> 8,
            targets |-> << PlanTarget("major", 51) >>,
            practice |-> NoPractice]

(* variant: the minimal profile carries a second target *)
getPlanConfig_ExtraTarget(educationLevel, courseName, desiredDegree) ==
  [isHighSchool |-> FALSE, totalTarget |-> 51, subjectTarget |-> 8,
   targets |-> << PlanTarget("major", 51), PlanTarget("liberal", 15) >>,
   practice |-> NoPractice]

(* variant: 2/3-year graduates seeking a bachelor get the minimal profile *)
getPlanConfig_NoGradBachelor(educationLevel, courseName, desiredDegree) ==
  LET level == IF educationLevel = Null THEN "" ELSE educationLevel
  IN  IF HasPracticeMarker(courseName)
      THEN [isHighSchool |-> FALSE, totalTarget |-> 6, subjectTarget |-> 6,
            targets |-> << PlanTarget("major", 6) >>,
            practice |-> [required |-> 4, elective |-> 2]]
      ELSE IF level \in JUNGTAE_GROUP /\ desiredDegree = "bachelor"
      THEN [isHighSchool |-> TRUE, totalTarget |-> 140, subjectTarget |-> NoSubjectTarget,
            targets |-> << PlanTarget("major", 60), PlanTarget("liberal", 30),
                           PlanTarget("general", 50) >>,
            practice |-> NoPractice]
      ELSE IF level \in JUNGTAE_GROUP
      THEN [isHighSchool |-> TRUE, totalTarget |-> 80, subjectTarget |-> NoSubjectTarget,
            targets |-> << PlanTarget("major", 45), PlanTarget("liberal", 15),
                           PlanTarget("general", 20) >>,
            practice |-> NoPractice]
      ELSE [isHighSchool |-> FALSE, totalTarget |-> 51, subjectTarget |-> 8,
            targets |-> << PlanTarget("major", 51) >>,
            practice |-> NoPractice]

getPlanConfig(educationLevel, courseName, desiredDegree) ==
  LET level == IF educationLevel = Null THEN "" ELSE educationLevel
  IN  IF HasPracticeMarker(courseName)
      THEN [isHighSchool |-> FALSE, totalTarget |-> 6, subjectTarget |-> 6,
            targets |-> << PlanTarget("major", 6) >>,
            practice |-> [required |-> 4, elective |-> 2]]
      ELSE IF level \in JUNGTAE_GROUP /\ desiredDegree = "bachelor"
      THEN [isHighSchool |-> TRUE, totalTarget |-> 140, subjectTarget |-> NoSubjectTarget,
            targets |-> << PlanTarget("major", 60), PlanTarget("liberal", 30),
                           PlanTarget("general", 50) >>,
            practice |-> NoPractice]
      ELSE IF level \in JUNGTAE_GROUP
      THEN [isHighSchool |-> TRUE, totalTarget |-> 80, subjectTarget |-> NoSubjectTarget,
            targets |-> << PlanTarget("major", 45), PlanTarget("liberal", 15),
                           PlanTarget("general", 20) >>,
            practice |-> NoPractice]
      ELSE IF level \in TWOTHREE_GRAD /\ desiredDegree = "bachelor"
      THEN [isHighSchool |-> TRUE, totalTarget |-> 140, subjectTarget |-> NoSubjectTarget,
            targets |-> << PlanTarget("major", 60), PlanTarget("liberal", 30),
                           PlanTarget("general", 50) >>,
            practice |-> NoPractice]
      ELSE IF level \in GRAD_ALL
      THEN [isHighSchool |-> FALSE, totalTarget |-> 51, subjectTarget |-> 8,
            targets |-> << PlanTarget("major", 51) >>,
            practice |-> NoPractice]
      ELSE [isHighSchool |-> FALSE, totalTarget |-> 51, subjectTarget |-> 8,
            targets |-> << PlanTarget("major", 51) >>,
            practice |-> NoPractice]

(* planConfig of a render: student?.education_level ?? null, ... *)
planConfig(p) ==
  IF p.student = NoStudent THEN getPlanConfig(Null, NoName, Null)
  ELSE getPlanConfig(p.student.education_level, p.student.course_name,
                     p.student.desired_degree)

----------------------------------------------------------------------------
(* The credit statistics of a render.  A subject row never changes after it
   is inserted; its category, credits and subject_type are those of its id.
   prevSubjects, creditCerts and dokaksaList are sequences of rows. *)

SubjectCategories == <<"major", "liberal", "general">>

SubjectRow(id) ==
  [id |-> id, category |-> SubjectCategories[(id % 3) + 1], credits |-> (id % 5) + 1,
   subject_type |-> IF id % 4 = 0 THEN "null"
                    ELSE IF id % 2 = 1 THEN "required" ELSE "elective"]

(* map[key] = (map[key] ?? 0) + credits, for each item in turn *)
RECURSIVE AddCredits(_, _)
AddCredits(map, items) ==
  IF items = <<>> THEN map
  ELSE AddCredits(Put(map, Head(items)[1], GetOr(map, Head(items)[1], 0) + Head(items)[2]),
                  Tail(items))

(* assignedIds.forEach: subjects.find((s) => s.id === sid), and if found its
   <<category, credits>> *)
RECURSIVE FoundItems(_, _)
FoundItems(ids, catalog) ==
  IF ids = <<>> THEN <<>>
  ELSE (IF Head(ids) \in catalog
        THEN << <<SubjectRow(Head(ids)).category, SubjectRow(Head(ids)).credits>> >>
        ELSE <<>>) \o FoundItems(Tail(ids), catalog)

AssignedItems(p) == FoundItems(assignedIds(p), p.subjects)

creditsByCategory(p) ==
  AddCredits(
    AddCredits(
      AddCredits(EmptyObj, AssignedItems(p)),
      [i \in 1..Len(p.prevSubjects) |-> <<p.prevSubjects[i].category, p.prevSubjects[i].credits>>]),
    [i \in 1..Len(p.dokaksaList) |-> <<p.dokaksaList[i].credit_type, p.dokaksaList[i].credits>>])

certCredits(p) == SumSeq([i \in 1..Len(p.creditCerts) |-> p.creditCerts[i].credits])

dokaksaCredits(p) == SumSeq([i \in 1..Len(p.dokaksaList) |-> p.dokaksaList[i].credits])

getCategoryCredits(p, categories) ==
  SumSeq([i \in 1..Len(categories) |-> GetOr(creditsByCategory(p), categories[i], 0)])

(* Object.values(map).reduce((a, b) => a + b, 0) *)
RECURSIVE SumValues(_)
SumValues(map) ==
  IF DOMAIN map = {} THEN 0
  ELSE LET k == CHOOSE x \in DOMAIN map : TRUE
       IN  map[k] + SumValues(Del(map, k))

(* variant: the self-study credits are added to the total once more *)
totalCredits_DokaksaTwice(p) ==
  SumValues(creditsByCategory(p)) + certCredits(p) + dokaksaCredits(p)

totalCredits(p) ==
  SumValues(creditsByCategory(p)) + certCredits(p)

(* Math.round((earned / target) * 100) for earned >= 0, target > 0: the
   nearest integer, halves up.  The double division is monotone in earned
   and exact when earned is a multiple of target. *)
RoundPct(earned, target) == (200 * earned + target) \div (2 * target)

(* variant: no Math.min(..., 100) *)
Clamp_None(x) == x

(* Math.min(x, 100) *)
Clamp(x) ==
  IF x < 100 THEN x ELSE 100

progress(p) == Clamp(RoundPct(totalCredits(p), planConfig(p).totalTarget))

(* pct of a target card *)
pct(p, t) == Clamp(RoundPct(getCategoryCredits(p, t.categories), t.target))

----------------------------------------------------------------------------
(* The page opens on the student's rows: the plan row as in Load, and the
   student record and the credit lists (set only when the query returned
   rows).  The subject list is not empty, so no preset is inserted. *)

LoadLists(p, r) ==
  [p EXCEPT !.student = r.student,
            !.prevSubjects = IF Len(r.prev) > 0 THEN r.prev ELSE @,
            !.creditCerts = IF Len(r.certs) > 0 THEN r.certs ELSE @,
            !.dokaksaList = IF Len(r.dokaksa) > 0 THEN r.dokaksa ELSE @]

OpenPage(s) ==
  /\ page[s].loading
  /\ \E early \in BOOLEAN :
       LET np == LoadLists(LoadPage(page[s], db, classStart, rows.subjects), rows)
       IN  IF early THEN Render(s, np) ELSE Commit(s, np)
  /\ ev' = NoEvent

----------------------------------------------------------------------------
(* SpecConfig: the page opens for a student of any education level, course
   name and desired degree. *)

MaxName == 2       \* syllables of a course name

EducationLevels ==
  {Null, "", "HS", "drop2", "drop3", "drop4", "grad2", "grad3", "grad4", "other"}

DesiredDegrees == {Null, "bachelor", "associate", "none", "other"}

CourseNames == {NoName} \cup UNION {[1..n -> {"sil", "seup", "sa"}] : n \in 0..MaxName}

StudentRows ==
  [education_level : EducationLevels, course_name : CourseNames,
   desired_degree : DesiredDegrees, major : {Null}]

InitConfig ==
  /\ page = [s \in {1} |-> InitialPage]
  /\ timers = [s \in {1} |-> {}]
  /\ ev = NoEvent
  /\ classStart = <<>>
  /\ db = NoPlan
  /\ inflight = {}
  /\ hist = NoHist
  /\ \E st \in StudentRows :
       rows = [NoRows EXCEPT !.student = st, !.subjects = ClickSubjects]

ConfigOpen == (\E s \in DOMAIN page : OpenPage(s)) /\ Frame

NextConfig == ConfigOpen

SpecConfig == InitConfig /\ [][NextConfig]_vars

TargetSum(cfg) == SumSeq([i \in 1..Len(cfg.targets) |-> cfg.targets[i].target])

(* C12: for every education level, course name and desired degree, null and
   unrecognized ones included, the targets of the profile the page computes
   add up to its totalTarget. *)
C12_TargetsSumToTotal ==
  \A s \in DOMAIN page :
    (Ready(s) /\ page[s].student # NoStudent) =>
      TargetSum(planConfig(page[s])) = planConfig(page[s]).totalTarget

(* a student with no education level, no course and an unrecognized degree *)
C12_Witness ==
  /\ Ready(1) /\ page[1].student # NoStudent
  /\ page[1].student.education_level = Null
  /\ page[1].student.course_name = NoName
  /\ page[1].student.desired_degree = "other"
  /\ planConfig(page[1]).totalTarget = 51

PracticumProfile ==
  [isHighSchool |-> FALSE, totalTarget |-> 6, subjectTarget |-> 6,
   targets |-> << PlanTarget("major", 6) >>,
   practice |-> [required |-> 4, elective |-> 2]]

(* C13: a course name that contains the practicum marker gives the practicum
   profile whatever the education level and the desired degree, and a
   profile has a practice requirement only then. *)
C13_PracticumIgnoresLevel ==
  \A s \in DOMAIN page :
    (Ready(s) /\ page[s].student # NoStudent) =>
      /\ HasPracticeMarker(page[s].student.course_name)
           => planConfig(page[s]) = PracticumProfile
      /\ planConfig(page[s]).practice # NoPractice
           <=> HasPracticeMarker(page[s].student.course_name)

(* a practicum course of a student of the attrition group seeking a bachelor *)
C13_Witness ==
  /\ Ready(1) /\ page[1].student # NoStudent
  /\ page[1].student.course_name = <<"sil", "seup">>
  /\ page[1].student.education_level = "drop2"
  /\ page[1].student.desired_degree = "bachelor"
  /\ planConfig(page[1]).totalTarget = 6

Profile140 ==
  [isHighSchool |-> TRUE, totalTarget |-> 140, subjectTarget |-> NoSubjectTarget,
   targets |-> << PlanTarget("major", 60), PlanTarget("liberal", 30), PlanTarget("general", 50) >>,
   practice |-> NoPractice]

Profile80 ==
  [isHighSchool |-> TRUE, totalTarget |-> 80, subjectTarget |-> NoSubjectTarget,
   targets |-> << PlanTarget("major", 45), PlanTarget("liberal", 15), PlanTarget("general", 20) >>,
   practice |-> NoPractice]

(* the figures the claim gives for the minimal profile *)
IsMinimal(cfg) ==
  /\ cfg.totalTarget = 51 /\ cfg.subjectTarget = 8
  /\ cfg.targets = << PlanTarget("major", 51) >>
  /\ cfg.practice = NoPractice

(* C14: without the practicum marker the profile is the 140-credit one for a
   bachelor sought from the attrition group or after a 2- or 3-year degree,
   the 80-credit one for the attrition group otherwise, and the minimal one
   (51 credits, 8 subjects, major 51) in every other case. *)
C14_ProfileByLevelAndDegree ==
  \A s \in DOMAIN page :
    (Ready(s) /\ page[s].student # NoStudent
       /\ ~HasPracticeMarker(page[s].student.course_name)) =>
      LET st  == page[s].student
          cfg == planConfig(page[s])
      IN  IF st.desired_degree = "bachelor"
             /\ st.education_level \in {"HS", "drop2", "drop3", "drop4", "grad2", "grad3"}
          THEN cfg = Profile140
          ELSE IF st.education_level \in {"HS", "drop2", "drop3", "drop4"}
          THEN cfg = Profile80
          ELSE IsMinimal(cfg)

(* a 3-year graduate seeking a bachelor, the course name not a practicum *)
C14_Witness ==
  /\ Ready(1) /\ page[1].student # NoStudent
  /\ page[1].student.education_level = "grad3"
  /\ page[1].student.desired_degree = "bachelor"
  /\ page[1].student.course_name = <<"seup", "sil">>
  /\ planConfig(page[1]) = Profile140

----------------------------------------------------------------------------
(* SpecProgress: the page opens for a student of each profile who has one
   prior-institution subject of any category and any credits up to
   MaxEarned. *)

MaxEarned == 141   \* credits of the prior-institution subject

(* one student for each return of getPlanConfig *)
ProfileStudents ==
  {[education_level |-> "grad4", course_name |-> <<"sil", "seup">>,
    desired_degree |-> Null, major |-> Null],
   [education_level |-> "HS", course_name |-> NoName,
    desired_degree |-> "bachelor", major |-> Null],
   [education_level |-> "drop3", course_name |-> <<"sa">>,
    desired_degree |-> "associate", major |-> Null],
   [education_level |-> "grad2", course_name |-> NoName,
    desired_degree |-> "bachelor", major |-> Null],
   [education_level |-> "grad4", course_name |-> NoName,
    desired_degree |-> "bachelor", major |-> Null],
   [education_level |-> Null, course_name |-> NoName,
    desired_degree |-> Null, major |-> Null]}

InitProgress ==
  /\ page = [s \in {1} |-> InitialPage]
  /\ timers = [s \in {1} |-> {}]
  /\ ev = NoEvent
  /\ classStart = <<>>
  /\ db = NoPlan
  /\ inflight = {}
  /\ hist = NoHist
  /\ \E st \in ProfileStudents, c \in Range(SubjectCategories), e \in 0..MaxEarned :
       rows = [NoRows EXCEPT !.student = st, !.subjects = ClickSubjects,
                             !.prev = << [id |-> 1, category |-> c, credits |-> e] >>]

ProgressOpen == (\E s \in DOMAIN page : OpenPage(s)) /\ Frame

NextProgress == ProgressOpen

SpecProgress == InitProgress /\ [][NextProgress]_vars

(* C16: the overall progress and the percentage of every target card lie in
   0..100 and are 100 once the earned amount reaches the target, for the
   credits the page holds and for every earned amount up to MaxEarned. *)
C16_ProgressWithinRange ==
  \A s \in DOMAIN page :
    (Ready(s) /\ page[s].student # NoStudent) =>
      LET p   == page[s]
          cfg == planConfig(p)
      IN  /\ progress(p) \in 0..100
          /\ totalCredits(p) >= cfg.totalTarget => progress(p) = 100
          /\ \A i \in 1..Len(cfg.targets) :
               /\ pct(p, cfg.targets[i]) \in 0..100
               /\ getCategoryCredits(p, cfg.targets[i].categories) >= cfg.targets[i].target
                    => pct(p, cfg.targets[i]) = 100
          /\ \A e \in 0..MaxEarned :
               /\ Clamp(RoundPct(e, cfg.totalTarget)) \in 0..100
               /\ e >= cfg.totalTarget => Clamp(RoundPct(e, cfg.totalTarget)) = 100

(* 90 credits earned against the 51 of the minimal profile *)
C16_Witness ==
  /\ Ready(1) /\ page[1].student # NoStudent
  /\ totalCredits(page[1]) = 90
  /\ planConfig(page[1]).totalTarget = 51
  /\ RoundPct(90, 51) = 176
  /\ progress(page[1]) = 100

----------------------------------------------------------------------------
(* The immediate-persistence handlers.  Each one is a call to the storage
   followed, after the await, by `if (error) { alert(...); return; }` and
   then by the setters.  A call is a request [n, op, arg]: n numbers the
   calls, arg is the row to insert or the id to delete.  A handler that
   returns before the call (empty name) gives NoRequest.
     credit_type and category: "major" = 전공, "liberal" = 교양,
     "general" = 일반; stage n = 'n단계'. *)

NoRequest == [none |-> TRUE]

Call(op, arg) == [op |-> op, arg |-> arg]

handleAddCustomSubject(p, blank) ==
  IF blank THEN NoRequest ELSE Call("addSubject", [owned |-> TRUE])

RequestDeleteSubject(p, subjectId) == Call("deleteSubject", [id |-> subjectId])

handleAddGubupSubject(p, credits) ==
  Call("addPrev", [category |-> "major", credits |-> credits])

handleAddPrevSubject(p, blank, category, credits) ==
  IF blank THEN NoRequest
  ELSE Call("addPrev", [category |-> category, credits |-> credits])

handleDeletePrevSubject(p, entryId) == Call("deletePrev", [id |-> entryId])

handleAddCert(p, blank, credits) ==
  IF blank THEN NoRequest ELSE Call("addCert", [credits |-> credits])

handleDeleteCert(p, certId) == Call("deleteCert", [id |-> certId])

handleDeleteDokaksa(p, entryId) == Call("deleteDokaksa", [id |-> entryId])

(* student?.major && preset.category === student.major *)
MajorMatches(student, category) ==
  /\ student # NoStudent
  /\ student.major \notin {Null, ""}
  /\ category = student.major

(* the credit_type handleToggleDokaksaPreset computes *)
CreditTypeOf(stage, student, category) ==
  IF stage = 1 THEN "liberal"
  ELSE IF MajorMatches(student, category) THEN "major" ELSE "general"

(* dokaksaList.find((d) => d.stage === stage && d.subject_name === name):
   the index of the first such entry, 0 if none *)
FindDokaksa(list, stage, name) ==
  LET hits == {i \in 1..Len(list) : list[i].stage = stage /\ list[i].subject_name = name}
  IN  IF hits = {} THEN 0 ELSE CHOOSE i \in hits : \A j \in hits : i <= j

handleToggleDokaksaPreset(p, preset) ==
  LET existing == FindDokaksa(p.dokaksaList, p.dokaksaStage, preset.name)
  IN  IF existing # 0 THEN handleDeleteDokaksa(p, p.dokaksaList[existing].id)
      ELSE Call("togglePreset",
                [stage |-> p.dokaksaStage, subject_name |-> preset.name,
                 credits |-> preset.credits,
                 credit_type |-> << CreditTypeOf(p.dokaksaStage, p.student, preset.category) >>,
                 preset |-> preset.category])

(* the insert of handleAddDokaksa names no credit_type: << >> *)
handleAddDokaksa(p, name, credits) ==
  IF name = "" THEN NoRequest
  ELSE Call("addDokaksa",
            [stage |-> p.dokaksaStage, subject_name |-> name, credits |-> credits,
             credit_type |-> << >>, preset |-> Null])

(* the storage executes a call: the rows after it *)
RemoveId(list, id) ==
  LET keep == {i \in 1..Len(list) : list[i].id # id}
      Nth(k) == CHOOSE i \in keep : Cardinality({j \in keep : j < i}) = k - 1
  IN  [k \in 1..Cardinality(keep) |-> list[Nth(k)]]

(* the row .insert(...).select().single() returns: the columns of the call,
   the id the table gave it, and for a column the call did not name the
   default of the table *)
InsertedRow(r, req, newId) ==
  CASE req.op = "addSubject" -> [id |-> newId]
    [] req.op = "addPrev"    -> [id |-> newId, category |-> req.arg.category,
                                 credits |-> req.arg.credits]
    [] req.op = "addCert"    -> [id |-> newId, credits |-> req.arg.credits]
    [] req.op \in {"togglePreset", "addDokaksa"} ->
         [id |-> newId, stage |-> req.arg.stage, subject_name |-> req.arg.subject_name,
          credits |-> req.arg.credits,
          credit_type |-> IF req.arg.credit_type = << >> THEN r.dokaksaDefault
                          ELSE req.arg.credit_type[1]]
    [] OTHER -> NoRequest

(* the table student_dokaksa accepts a row: its key is the generated id, no
   constraint is stated on (student_id, stage, subject_name) *)
DokaksaInsert(table, data) == Append(table, data)

Execute(r, req, newId) ==
  LET data == InsertedRow(r, req, newId)
  IN  CASE req.op = "addSubject"    -> [r EXCEPT !.subjects = @ \cup {newId}]
        [] req.op = "deleteSubject" -> [r EXCEPT !.subjects = @ \ {req.arg.id}]
        [] req.op = "addPrev"       -> [r EXCEPT !.prev = Append(@, data)]
        [] req.op = "deletePrev"    -> [r EXCEPT !.prev = RemoveId(@, req.arg.id)]
        [] req.op = "addCert"       -> [r EXCEPT !.certs = Append(@, data)]
        [] req.op = "deleteCert"    -> [r EXCEPT !.certs = RemoveId(@, req.arg.id)]
        [] req.op = "togglePreset"  -> [r EXCEPT !.dokaksa = DokaksaInsert(@, data)]
        [] req.op = "addDokaksa"    -> [r EXCEPT !.dokaksa = DokaksaInsert(@, data)]
        [] req.op = "deleteDokaksa" -> [r EXCEPT !.dokaksa = RemoveId(@, req.arg.id)]

(* the setters a handler runs after a call that succeeded *)
AfterSuccess(p, req, data) ==
  CASE req.op = "addSubject"    -> [p EXCEPT !.subjects = @ \cup {data.id}]
    [] req.op = "deleteSubject" -> handleDeleteSubject(p, req.arg.id)
    [] req.op = "addPrev"       -> [p EXCEPT !.prevSubjects = Append(@, data)]
    [] req.op = "deletePrev"    -> [p EXCEPT !.prevSubjects = RemoveId(@, req.arg.id)]
    [] req.op = "addCert"       -> [p EXCEPT !.creditCerts = Append(@, data)]
    [] req.op = "deleteCert"    -> [p EXCEPT !.creditCerts = RemoveId(@, req.arg.id)]
    [] req.op = "togglePreset"  -> [p EXCEPT !.dokaksaList = Append(@, data)]
    [] req.op = "addDokaksa"    -> [p EXCEPT !.dokaksaList = Append(@, data),
                                             !.dokaksaStage = 1]
    [] req.op = "deleteDokaksa" -> [p EXCEPT !.dokaksaList = RemoveId(@, req.arg.id)]

(* variant: the setters run whatever the call answered *)
Settle_IgnoreError(p, req, ok, data) ==
  AfterSuccess(p, req, data)

(* the handler after the await: if (error) { alert(...); return; } *)
Settle(p, req, ok, data) ==
  IF ~ok THEN p ELSE AfterSuccess(p, req, data)

----------------------------------------------------------------------------
(* SpecOps: one session on a student with a plan row, issuing the
   immediate-persistence calls; each call is answered later, with success
   or with an error.  The plan assigns subjects 1 and 2, and subject 9,
   which is not in the catalog.  The self-study form stays at stage 1. *)

MaxOps == 3        \* calls issued
MaxFlight == 2     \* calls awaiting their answer

OpsPlan ==
  [semesters |-> INITIAL_SEMESTERS,
   semester_subjects |-> (0 :> <<1, 2>> @@ 1 :> <<9>>),
   semester_dates |-> EmptyObj]

OpsSubjects == {1, 2, 3}

Majors == {Null, "", "catA"}

DokaksaDefaults == {Null, "major", "liberal", "general"}

DokaksaStages == 1..4

DokaksaPresets ==
  {[stage |-> 1, category |-> "catA", name |-> "n1", credits |-> 4],
   [stage |-> 2, category |-> "catA", name |-> "n2", credits |-> 5],
   [stage |-> 2, category |-> "",     name |-> "n3", credits |-> 5],
   [stage |-> 3, category |-> "catB", name |-> "n4", credits |-> 5]}

ManualNames == {"", "n1"}

CreditInputs == {3}

(* the rows of a student of this major, in a database whose column
   student_dokaksa.credit_type has this default *)
OpsRows(major, dflt) ==
  [NoRows EXCEPT
     !.student = [education_level |-> "HS", course_name |-> NoName,
                  desired_degree |-> "bachelor", major |-> major],
     !.subjects = OpsSubjects,
     !.dokaksaDefault = dflt]

InitOps ==
  /\ page = [s \in {1} |-> InitialPage]
  /\ timers = [s \in {1} |-> {}]
  /\ ev = NoEvent
  /\ classStart = <<>>
  /\ db = OpsPlan
  /\ inflight = {}
  /\ hist = [issued |-> 0, preset |-> EmptyObj]
  /\ \E dflt \in DokaksaDefaults : rows = OpsRows("catA", dflt)

OpsOpen ==
  /\ \E s \in DOMAIN page : OpenPage(s)
  /\ UNCHANGED <<classStart, db, inflight, hist, rows>>

(* session s calls a handler that issues req, or returns without a call *)
Issue(s, req) ==
  /\ Ready(s)
  /\ hist.issued < MaxOps
  /\ Cardinality(inflight) < MaxFlight
  /\ IF req = NoRequest
     THEN /\ ev' = [op |-> "return"]
          /\ UNCHANGED <<inflight, hist>>
     ELSE /\ inflight' = inflight \cup {[n |-> hist.issued + 1, s |-> s, req |-> req]}
          /\ hist' = [hist EXCEPT !.issued = @ + 1]
          /\ ev' = [op |-> "call", n |-> hist.issued + 1]
  /\ UNCHANGED <<page, timers, classStart, db, rows>>

OpsAddCustomSubject ==
  \E s \in DOMAIN page, blank \in BOOLEAN :
    Issue(s, handleAddCustomSubject(page[s], blank))

OpsDeleteSubject ==
  \E s \in DOMAIN page : \E subjectId \in page[s].subjects :
    Issue(s, RequestDeleteSubject(page[s], subjectId))

OpsAddGubupSubject ==
  \E s \in DOMAIN page, credits \in CreditInputs :
    Issue(s, handleAddGubupSubject(page[s], credits))

OpsAddPrevSubject ==
  \E s \in DOMAIN page, blank \in BOOLEAN, category \in {"liberal"}, credits \in CreditInputs :
    Issue(s, handleAddPrevSubject(page[s], blank, category, credits))

OpsDeletePrevSubject ==
  \E s \in DOMAIN page : \E i \in 1..Len(page[s].prevSubjects) :
    Issue(s, handleDeletePrevSubject(page[s], page[s].prevSubjects[i].id))

OpsAddCert ==
  \E s \in DOMAIN page, blank \in BOOLEAN, credits \in CreditInputs :
    Issue(s, handleAddCert(page[s], blank, credits))

OpsDeleteCert ==
  \E s \in DOMAIN page : \E i \in 1..Len(page[s].creditCerts) :
    Issue(s, handleDeleteCert(page[s], page[s].creditCerts[i].id))

(* the popup lists the presets of the stage of the form *)
OpsToggleDokaksaPreset ==
  \E s \in DOMAIN page : \E preset \in DokaksaPresets :
    /\ preset.stage = page[s].dokaksaStage
    /\ Issue(s, handleToggleDokaksaPreset(page[s], preset))

OpsAddDokaksa ==
  \E s \in DOMAIN page, name \in ManualNames, credits \in CreditInputs :
    Issue(s, handleAddDokaksa(page[s], name, credits))

OpsDeleteDokaksa ==
  \E s \in DOMAIN page : \E i \in 1..Len(page[s].dokaksaList) :
    Issue(s, handleDeleteDokaksa(page[s], page[s].dokaksaList[i].id))

(* the stage buttons of the popup: setDokaksaForm((f) => ({ ...f, stage })) *)
OpsSelectStage ==
  /\ \E s \in DOMAIN page : \E stage \in DokaksaStages :
       /\ Ready(s)
       /\ stage # page[s].dokaksaStage
       /\ Render(s, [page[s] EXCEPT !.dokaksaStage = stage])
  /\ ev' = [op |-> "stage"]
  /\ UNCHANGED <<classStart, db, inflight, hist, rows>>

(* a call is answered: with an error, and then the storage is as it was,
   or with success, and then the storage has executed it *)
OpsAnswer ==
  \E c \in inflight, ok \in BOOLEAN :
    LET newId == IF c.req.op = "addSubject" THEN 3 + c.n ELSE c.n
        data  == InsertedRow(rows, c.req, newId)
        np    == Settle(page[c.s], c.req, ok, data)
    IN  /\ inflight' = inflight \ {c}
        /\ rows' = IF ok THEN Execute(rows, c.req, newId) ELSE rows
        /\ IF ok /\ c.req.op = "deleteSubject" THEN Commit(c.s, np) ELSE Render(c.s, np)
        /\ hist' = IF ok /\ c.req.op \in {"togglePreset", "addDokaksa"}
                   THEN [hist EXCEPT !.preset = Put(@, newId, c.req.arg.preset)]
                   ELSE hist
        /\ ev' = [op |-> "answer", n |-> c.n, call |-> c.req.op, ok |-> ok]
        /\ UNCHANGED <<classStart, db>>

NextOps ==
  \/ OpsOpen
  \/ OpsAddCustomSubject
  \/ OpsDeleteSubject
  \/ OpsAddGubupSubject
  \/ OpsAddPrevSubject
  \/ OpsDeletePrevSubject
  \/ OpsAddCert
  \/ OpsDeleteCert
  \/ OpsToggleDokaksaPreset
  \/ OpsAddDokaksa
  \/ OpsDeleteDokaksa
  \/ OpsAnswer

SpecOps == InitOps /\ [][NextOps]_vars

(* the in-memory lists of the immediate-persistence handlers, and the
   assignment map *)
Lists(p) ==
  <<p.subjects, p.prevSubjects, p.creditCerts, p.dokaksaList, p.semesterSubjects>>

(* C11: a step in which a storage call is answered with an error leaves
   the in-memory lists and the assignment map as they were, and once the page
   has loaded a list changes only in a step in which a call is answered with
   success. *)
C11_ErrorLeavesListsUnchanged ==
  [][\A s \in DOMAIN page :
       /\ (ev'.op = "answer" /\ ~ev'.ok) => Lists(page'[s]) = Lists(page[s])
       /\ (Ready(s) /\ Lists(page'[s]) # Lists(page[s])) => (ev'.op = "answer" /\ ev'.ok)]_vars

(* a delete of an assigned subject was answered with an error after an
   insert had succeeded: the subject is still listed and assigned *)
C11_Witness ==
  /\ ev.op = "answer" /\ ~ev.ok /\ ev.call = "deleteSubject"
  /\ 1 \in page[1].subjects
  /\ 1 \in Range(assignedIds(page[1]))
  /\ Len(page[1].dokaksaList) = 1

(* the credits subject id brings to the total: those of its catalog row, or
   nothing when the catalog has no such row *)
CreditOf(id, catalog, category) ==
  IF id \in catalog /\ SubjectRow(id).category = category THEN SubjectRow(id).credits ELSE 0

(* the credits of the rows of list whose field has the value category *)
RowCredits(list, field, category) ==
  SumSeq([i \in 1..Len(list) |-> IF list[i][field] = category THEN list[i].credits ELSE 0])

(* the credits of category: assigned subjects of the catalog, prior
   subjects and self-study entries *)
CategoryCredits(p, category) ==
  LET ks == SortedKeys(DOMAIN p.semesterSubjects)
  IN  SumSeq([i \in 1..Len(ks) |->
                SumSeq([j \in 1..Len(p.semesterSubjects[ks[i]]) |->
                          CreditOf(p.semesterSubjects[ks[i]][j], p.subjects, category)])])
      + RowCredits(p.prevSubjects, "category", category)
      + RowCredits(p.dokaksaList, "credit_type", category)

AllCategories == <<"major", "liberal", "general", Null>>

(* C15: the grand total is the credits of the assigned subjects that are
   in the catalog, plus those of the prior-institution subjects, of the
   self-study entries and of the certificates; every self-study entry is in
   the total of its credit_type and nowhere else, and an assigned id the
   catalog lacks adds nothing. *)
C15_GrandTotal ==
  \A s \in DOMAIN page :
    LET p == page[s]
    IN  /\ \A i \in 1..Len(AllCategories) :
             GetOr(creditsByCategory(p), AllCategories[i], 0) = CategoryCredits(p, AllCategories[i])
        /\ totalCredits(p) =
             SumSeq([i \in 1..Len(AllCategories) |-> CategoryCredits(p, AllCategories[i])])
             + SumSeq([i \in 1..Len(p.creditCerts) |-> p.creditCerts[i].credits])

(* one prior subject, one certificate and one self-study entry, with the
   assigned subject 9 missing from the catalog *)
C15_Witness ==
  /\ Ready(1)
  /\ Len(page[1].prevSubjects) = 1 /\ Len(page[1].creditCerts) = 1
  /\ Len(page[1].dokaksaList) = 1
  /\ 9 \in Range(assignedIds(page[1])) /\ 9 \notin page[1].subjects
  /\ totalCredits(page[1]) > 9

(* SpecDokaksa: the self-study popup of a student of any major.  The
   stage of the form is selected, presets are toggled and entries typed in.
   No DDL of student_dokaksa is in the repository: the default of its column
   credit_type is one of DokaksaDefaults. *)

InitDokaksa ==
  /\ page = [s \in {1} |-> InitialPage]
  /\ timers = [s \in {1} |-> {}]
  /\ ev = NoEvent
  /\ classStart = <<>>
  /\ db = NoPlan
  /\ inflight = {}
  /\ hist = [issued |-> 0, preset |-> EmptyObj]
  /\ \E major \in Majors, dflt \in DokaksaDefaults : rows = OpsRows(major, dflt)

NextDokaksa ==
  \/ OpsOpen
  \/ OpsSelectStage
  \/ OpsToggleDokaksaPreset
  \/ OpsAddDokaksa
  \/ OpsDeleteDokaksa
  \/ OpsAnswer

SpecDokaksa == InitDokaksa /\ [][NextDokaksa]_vars

(* the credit_type the rule gives an entry of this stage whose preset had
   this category (Null: no preset), for a student of this major *)
RuleCreditType(stage, category, major) ==
  IF stage = 1 THEN "liberal"
  ELSE IF major \notin {Null, ""} /\ category = major THEN "major" ELSE "general"

(* C17: every stored self-study entry of stage 1, 2 or 3 has the
   credit_type of the rule: 교양 at stage 1, and at stage 2 or 3 전공 when
   its preset's category is the student's non-empty major, 일반 otherwise. *)
C17_CreditTypeByRule ==
  \A i \in 1..Len(rows.dokaksa) :
    LET d == rows.dokaksa[i]
    IN  d.stage \in 1..3 =>
          d.credit_type = RuleCreditType(d.stage, hist.preset[d.id], rows.student.major)

----------------------------------------------------------------------------
(* The preset auto-seed of the load effect.  The effect is three steps: the
   seven queries (Promise.all), then for a 신법/구법 course with an empty
   subject list the fetch of the presets and the insert of one student-owned
   subject per preset, then the setters.  subject_presets does not change:
   its fetch is taken with the insert.
     "sin","beop" = 신법, "gu","beop" = 구법. *)

(* courseType: '신법' for both markers, null otherwise *)
HasCourseType(student) ==
  \/ NameIncludes(student.course_name, <<"sin", "beop">>)
  \/ NameIncludes(student.course_name, <<"gu", "beop">>)

(* the names of the subject_presets rows of course_type '신법', in sort_order *)
SubjectPresets == <<"p1", "p2">>

(* supabase.from('subjects').insert(rows).select(): one new row per preset *)
InsertPresets(r) ==
  LET base == MaxOf(r.subjects \cup {0})
      ids  == {base + i : i \in 1..Len(SubjectPresets)}
  IN  [r EXCEPT !.subjects = @ \cup ids,
                !.names = [id \in DOMAIN @ \cup ids |->
                             IF id \in ids THEN SubjectPresets[id - base] ELSE @[id]]]

(* the setters at the end of the effect, loadedSubjects being the rows read
   or the rows inserted *)
FinishLoad(s, loadedSubjects) ==
  \E early \in BOOLEAN :
    LET np == LoadLists(LoadPage(page[s], db, classStart, loadedSubjects), rows)
    IN  IF early THEN Render(s, np) ELSE Commit(s, np)

----------------------------------------------------------------------------
(* SpecSeed: two sessions open the page of one student, each up to
   MaxSeedLoads times in all, their steps interleaved in any order. *)

MaxSeedLoads == 3   \* loads started

SeedCourseNames == {NoName, <<"sa">>, <<"sin", "beop">>, <<"gu", "beop", "sa">>}

InitSeed ==
  /\ page = [s \in {1, 2} |-> InitialPage]
  /\ timers = [s \in {1, 2} |-> {}]
  /\ ev = NoEvent
  /\ classStart = <<>>
  /\ db = NoPlan
  /\ inflight = {}
  /\ hist = [loads |-> 0]
  /\ \E name \in SeedCourseNames, global \in {{}, {1}} :
       rows = [NoRows EXCEPT
                 !.student = [education_level |-> "HS", course_name |-> name,
                              desired_degree |-> "bachelor", major |-> Null],
                 !.subjects = global]

(* the queries of session s are answered *)
SeedRead ==
  \E s \in DOMAIN page :
    /\ page[s].loading
    /\ \A c \in inflight : c.s # s
    /\ hist.loads < MaxSeedLoads
    /\ hist' = [hist EXCEPT !.loads = @ + 1]
    /\ IF HasCourseType(rows.student) /\ rows.subjects = {}
       THEN /\ inflight' = inflight \cup {[s |-> s]}
            /\ UNCHANGED <<page, timers>>
       ELSE /\ FinishLoad(s, rows.subjects)
            /\ UNCHANGED inflight
    /\ ev' = [op |-> "read", s |-> s]
    /\ UNCHANGED <<classStart, db, rows>>

(* session s, which read an empty subject list, inserts the presets; the
   insert succeeds or not *)
SeedInsert ==
  \E c \in inflight, ok \in BOOLEAN :
    /\ inflight' = inflight \ {c}
    /\ rows' = IF ok THEN InsertPresets(rows) ELSE rows
    /\ FinishLoad(c.s, IF ok THEN rows'.subjects \ rows.subjects ELSE {})
    /\ ev' = [op |-> "seed", s |-> c.s, ok |-> ok]
    /\ UNCHANGED <<classStart, db, hist>>

(* session s leaves the page and opens it again *)
SeedReopen ==
  /\ \E s \in DOMAIN page :
       /\ Ready(s)
       /\ page' = [page EXCEPT ![s] = InitialPage]
       /\ timers' = [timers EXCEPT ![s] =
                       IF page[s].saveTimer # 0 THEN ClearTimeout(@, page[s].saveTimer) ELSE @]
  /\ ev' = NoEvent
  /\ UNCHANGED <<classStart, db, inflight, hist, rows>>

NextSeed ==
  \/ SeedRead
  \/ SeedInsert
  \/ SeedReopen

SpecSeed == InitSeed /\ [][NextSeed]_vars

(* the student's subjects that carry this preset name *)
Seeded(name) == {id \in DOMAIN rows.names : id \in rows.subjects /\ rows.names[id] = name}

(* C18: each preset is at most once among the student's subjects. *)
C18_PresetsAtMostOnce ==
  \A i \in 1..Len(SubjectPresets) : Cardinality(Seeded(SubjectPresets[i])) <= 1

----------------------------------------------------------------------------
(* The class_start field of the student form (StudentModal).  The input
   keeps the digits typed, at most seven, and shows them formatted; Enter or
   the + button appends the trimmed text to the tags unless it is empty or
   already a tag; class_start is the tags joined by ','.  A text is modelled
   by its parts, each a sequence of digits:
     fewer than 4 digits  d          ->  "d"                  (raw)
     4 digits             YYYY       ->  "YYYY년"
     5 digits             YYYYT      ->  "YYYY년 T학기"
     6 or 7 digits        YYYYTN(N)  ->  "YYYY년 T학기 N(N)기" *)

(* digits.slice(from - 1, to) *)
Slice(digits, from, to) ==
  LET last == IF to < Len(digits) THEN to ELSE Len(digits)
  IN  [k \in 1..(last - from + 1) |-> digits[from + k - 1]]

FormText(digits) ==
  IF Len(digits) < 4
  THEN [raw |-> digits, year |-> <<>>, term |-> <<>>, class |-> <<>>]
  ELSE [raw |-> <<>>, year |-> Slice(digits, 1, 4), term |-> Slice(digits, 5, 5),
        class |-> Slice(digits, 6, Len(digits))]

(* parseInt of a sequence of digits; a year keeps its four digits *)
RECURSIVE ToNumber(_)
ToNumber(ds) ==
  IF ds = <<>> THEN 0 ELSE 10 * ToNumber(Slice(ds, 1, Len(ds) - 1)) + ds[Len(ds)]

(* val.match(/(\d{4})년\s*(\d+)학기\s*(\d+)기/) on a text of the form: the
   token parseClassStart sees, with the text it came from *)
FormToken(text) ==
  IF text.class # <<>>
  THEN [kind |-> "ok", year |-> ToNumber(text.year), term |-> ToNumber(text.term),
        class_number |-> ToNumber(text.class), text |-> text]
  ELSE [kind |-> "bad", text |-> text]

(* the Enter key and the + button *)
AddTag(tags, text) ==
  IF text = FormText(<<>>) \/ \E i \in 1..Len(tags) : tags[i].text = text
  THEN tags
  ELSE Append(tags, FormToken(text))

(* the remove button of tag i: tags.filter((_, idx) => idx !== i) *)
RemoveTag(tags, i) ==
  [k \in 1..(Len(tags) - 1) |-> IF k < i THEN tags[k] ELSE tags[k + 1]]

----------------------------------------------------------------------------
(* SpecForm: the class_start of a student is edited in the form, then the
   plan page is opened, with or without a plan row, and cohorts are added
   and deleted. *)

MaxDigit == 2      \* the digits typed after the year are 0..MaxDigit
MaxTags == 2       \* tags of class_start

FormYears == {<<2, 0, 2, 5>>}

TypedDigits ==
  {<<>>, <<2, 0>>}
    \cup {y \o rest : y \in FormYears,
                      rest \in UNION {[1..n -> 0..MaxDigit] : n \in 0..3}}

InitForm ==
  /\ page = [s \in {1} |-> InitialPage]
  /\ timers = [s \in {1} |-> {}]
  /\ ev = NoEvent
  /\ classStart = <<>>
  /\ db \in {NoPlan, FullPlan}
  /\ inflight = {}
  /\ hist = NoHist
  /\ rows = NoRows

(* a tag is typed and added, the plan page not being open yet *)
FormAddTag ==
  /\ \A s \in DOMAIN page : page[s].loading
  /\ Len(classStart) < MaxTags
  /\ \E digits \in TypedDigits : classStart' = AddTag(classStart, FormText(digits))
  /\ ev' = [op |-> "tag"]
  /\ UNCHANGED <<page, timers, db, inflight, hist, rows>>

FormRemoveTag ==
  /\ \A s \in DOMAIN page : page[s].loading
  /\ \E i \in 1..Len(classStart) : classStart' = RemoveTag(classStart, i)
  /\ ev' = [op |-> "untag"]
  /\ UNCHANGED <<page, timers, db, inflight, hist, rows>>

NextForm ==
  \/ FormAddTag
  \/ FormRemoveTag
  \/ DoLoad
  \/ DoAddSemester
  \/ DoAddKisu
  \/ DoDeleteSemester

SpecForm == InitForm /\ [][NextForm]_vars

(* C19: every semester of the in-memory plan has term 1 or 2 and a
   class_number of at least 1. *)
C19_TermAndClassNumberValid ==
  \A s \in DOMAIN page : \A i \in 1..Len(page[s].semesters) :
    /\ page[s].semesters[i].term \in {1, 2}
    /\ page[s].semesters[i].class_number >= 1

----------------------------------------------------------------------------
(* The effect of one call of handleDeleteSemester.  The call is made from
   render c with the updates q queued before it in the same click: the
   cohort delete button makes one call (q = c), the tab delete button one
   call per cohort of the group. *)

(* r is q without the semester semId, its assignment list and its dates,
   and with nothing else of the three changed *)
DeleteEffect(q, r, semId) ==
  /\ r.semesters =
       LET Other(x) == x.id # semId IN Filter(q.semesters, Other)
  /\ \A i \in 1..Len(r.semesters) : r.semesters[i].id # semId
  /\ DOMAIN r.semesterSubjects = DOMAIN q.semesterSubjects \ {semId}
  /\ \A k \in DOMAIN r.semesterSubjects : r.semesterSubjects[k] = q.semesterSubjects[k]
  /\ DOMAIN r.semesterDates = DOMAIN q.semesterDates \ {semId}
  /\ \A k \in DOMAIN r.semesterDates : r.semesterDates[k] = q.semesterDates[k]

(* the updates queued when the tab delete button reaches cohort i *)
QueuedBefore(p, groupSems, i) == DeleteEach(p, p, SubSeq(groupSems, 1, i - 1), 1)

(* the calls of the cohort delete button of p have the effect *)
CohortDeleteEffect(p) ==
  LET g == selectedGroupSemesters(p)
  IN  Len(g) > 1 =>
        \A i \in 1..Len(g) : DeleteEffect(p, handleDeleteSemester(p, g[i].id), g[i].id)

(* the calls of the tab delete buttons of p have the effect *)
TabDeleteEffect(p) ==
  \A key \in GroupKeys(p.semesters) :
    LET groupSems == GroupOf(p.semesters, key[1], key[2])
    IN  Len(p.semesters) > Len(groupSems) =>
          \A i \in 1..Len(groupSems) :
            LET q == QueuedBefore(p, groupSems, i)
            IN  DeleteEffect(q, DeleteSemesterCall(p, q, groupSems[i].id), groupSems[i].id)

(* C20: every call of handleDeleteSemester that passes the
   semesters.length <= 1 return removes the semester of that id, its
   assignment list and its dates, and changes no other semester, assignment
   list or dates. *)
C20_DeleteSemesterEffect ==
  \A s \in DOMAIN page :
    Ready(s) => (CohortDeleteEffect(page[s]) /\ TabDeleteEffect(page[s]))

----------------------------------------------------------------------------
(* The selection after a delete.  SemIds are the ids of a list. *)

SemIds(sems) == {sems[i].id : i \in 1..Len(sems)}

(* the selection the plan r is to have after the selected semester del went:
   the first cohort of its group left in r, else the last semester of r *)
NextSelection(r, del) ==
  LET g == GroupOf(r.semesters, del.year, del.term)
  IN  IF Len(g) > 0 THEN g[1].id ELSE r.semesters[Len(r.semesters)].id

(* r follows p by a click that called handleDeleteSemester on the ids of
   called *)
SelectionEffect(p, r, called) ==
  IF p.selectedSemester \in called /\ FindSem(p.semesters, p.selectedSemester) # 0
  THEN /\ r.selectedSemester \in SemIds(r.semesters)
       /\ r.selectedSemester =
            NextSelection(r, p.semesters[FindSem(p.semesters, p.selectedSemester)])
  ELSE r.selectedSemester = p.selectedSemester

CohortDeleteSelection(p) ==
  LET g == selectedGroupSemesters(p)
  IN  Len(g) > 1 =>
        \A i \in 1..Len(g) :
          SelectionEffect(p, handleDeleteSemester(p, g[i].id), {g[i].id})

TabDeleteSelection(p) ==
  \A key \in GroupKeys(p.semesters) :
    LET groupSems == GroupOf(p.semesters, key[1], key[2])
    IN  Len(p.semesters) > Len(groupSems) =>
          SelectionEffect(p, TabDelete(p, key[1], key[2]), SemIds(groupSems))

(* C21: after a click that deletes the selected semester the selection is
   a semester of the plan, the first cohort left of the deleted semester's
   group or else the last semester of the list; a click that deletes other
   semesters leaves the selection as it was. *)
C21_SelectionAfterDelete ==
  \A s \in DOMAIN page :
    Ready(s) => (CohortDeleteSelection(page[s]) /\ TabDeleteSelection(page[s]))

----------------------------------------------------------------------------
(* r is p with one semester of (year, term) appended *)
AddEffect(p, r, year, term) ==
  LET n  == Len(p.semesters)
      ns == r.semesters[n + 1]
  IN  /\ Len(r.semesters) = n + 1
      /\ \A i \in 1..n : r.semesters[i] = p.semesters[i]
      /\ ns.year = year /\ ns.term = term
      /\ ns.class_number =
           Cardinality({i \in 1..n : p.semesters[i].year = year /\ p.semesters[i].term = term}) + 1
      /\ ns.id = p.semesters[n].id + 1
      /\ ns.id \in DOMAIN r.semesterDates
      /\ r.semesterDates[ns.id] = getDefaultDates(year, term)
      /\ \A k \in DOMAIN p.semesterDates :
           k \in DOMAIN r.semesterDates /\ r.semesterDates[k] = p.semesterDates[k]
      /\ DOMAIN r.semesterDates = DOMAIN p.semesterDates \cup {ns.id}
      /\ r.semesterSubjects = p.semesterSubjects

(* C22: adding a semester of a year and term, or a cohort to the group of
   the selected semester, appends one semester whose class_number is the
   size of its group plus one and whose id is the last id plus one, gives it
   the default dates of its term, and changes no other semester, no
   assignment list and no other dates. *)
C22_AddAppendsOneSemester ==
  \A s \in DOMAIN page :
    Ready(s) =>
      /\ \A year \in YearInputs, term \in {1, 2} :
           AddEffect(page[s], handleConfirmAddSemester(page[s], year, term), year, term)
      /\ AddEffect(page[s], handleAddKisu(page[s]),
                   currentSemester(page[s]).year, currentSemester(page[s]).term)

(* a cohort was added to a group after a semester with a lower id had been
   deleted: the ids of the list are not 0, 1, 2, ... *)
C22_Witness ==
  /\ Ready(1)
  /\ Len(page[1].semesters) >= 2
  /\ page[1].semesters[Len(page[1].semesters)].class_number = 2
  /\ page[1].semesters[Len(page[1].semesters)].id > Len(page[1].semesters) - 1

----------------------------------------------------------------------------
(* the ids of the semesters of p that have the year and term of the selected
   semester (of the first semester when the selection names none) *)
SelectedGroupIds(p) ==
  LET cur == IF p.selectedSemester \in SemIds(p.semesters)
             THEN CHOOSE x \in Range(p.semesters) : x.id = p.selectedSemester
             ELSE p.semesters[1]
  IN  {x.id : x \in {y \in Range(p.semesters) : y.year = cur.year /\ y.term = cur.term}}

(* list without every occurrence of subjectId *)
Without(list, subjectId) ==
  LET Other(x) == x # subjectId IN Filter(list, Other)

(* r is p after unassigning subjectId *)
RemoveEffect(p, r, subjectId) ==
  LET holders == {k \in SelectedGroupIds(p) \cap DOMAIN p.semesterSubjects :
                    subjectId \in Range(p.semesterSubjects[k])}
  IN  /\ r = [p EXCEPT !.semesterSubjects = r.semesterSubjects]
      /\ DOMAIN r.semesterSubjects = DOMAIN p.semesterSubjects
      /\ IF holders = {} THEN r.semesterSubjects = p.semesterSubjects
         ELSE \E h \in holders :
                /\ r.semesterSubjects[h] = Without(p.semesterSubjects[h], subjectId)
                /\ \A k \in DOMAIN p.semesterSubjects \ {h} :
                     r.semesterSubjects[k] = p.semesterSubjects[k]

(* C23: unassigning a subject removes it from the list of one semester of
   the selected semester's (year, term) group that holds it and changes no
   other list; when no semester of that group holds it, the assignment map
   stays as it is, also when a semester of another group holds it; the
   semester id passed makes no difference. *)
C23_UnassignWithinSelectedGroup ==
  \A s \in DOMAIN page :
    Ready(s) =>
      \A subjectId \in Range(assignedIds(page[s])) \cup ClickSubjects :
        \A semesterId \in SemIds(page[s].semesters) \cup {-1} :
          /\ RemoveEffect(page[s], handleRemoveAssigned(page[s], semesterId, subjectId), subjectId)
          /\ handleRemoveAssigned(page[s], semesterId, subjectId)
               = handleRemoveAssigned(page[s], page[s].selectedSemester, subjectId)

(* subject 1 is assigned in a semester of the plan whose group is not the
   selected one, so unassigning it finds no holder in the selected group *)
C23_Witness ==
  /\ Ready(1)
  /\ \E k \in DOMAIN page[1].semesterSubjects :
       /\ 1 \in Range(page[1].semesterSubjects[k])
       /\ k \in SemIds(page[1].semesters)
       /\ k \notin SelectedGroupIds(page[1])

----------------------------------------------------------------------------
(* the positions of csItems that name a cohort which list does not hold and
   which no earlier position names *)
MissingAt(list, csItems) ==
  {i \in 1..Len(csItems) :
     /\ \A k \in 1..Len(list) :
          <<list[k].year, list[k].term, list[k].class_number>>
            # <<csItems[i].year, csItems[i].term, csItems[i].class_number>>
     /\ \A j \in 1..(i - 1) :
          <<csItems[j].year, csItems[j].term, csItems[j].class_number>>
            # <<csItems[i].year, csItems[i].term, csItems[i].class_number>>}

(* r is kept followed by one semester per position of MissingAt(kept,
   csItems), in the order of csItems, with the ids after the greatest of kept *)
KeptThenMissing(kept, csItems, r) ==
  LET miss == MissingAt(kept, csItems)
      top  == MaxOf({kept[k].id : k \in 1..Len(kept)})
  IN  /\ Len(r) = Len(kept) + Cardinality(miss)
      /\ \A k \in 1..Len(kept) : r[k] = kept[k]
      /\ \A i \in miss :
           LET n == Cardinality({j \in miss : j <= i})
           IN  /\ r[Len(kept) + n].year = csItems[i].year
               /\ r[Len(kept) + n].term = csItems[i].term
               /\ r[Len(kept) + n].class_number = csItems[i].class_number
               /\ r[Len(kept) + n].id = top + n
               /\ r[Len(kept) + n].id > top

(* the persisted semesters as the page reads them: class_number 1 where the
   row has none *)
PersistedSemesters(plan) ==
  [k \in 1..Len(plan.semesters) |->
     IF "class_number" \in DOMAIN plan.semesters[k] THEN plan.semesters[k]
     ELSE [id |-> plan.semesters[k].id, year |-> plan.semesters[k].year,
           term |-> plan.semesters[k].term, class_number |-> 1]]

(* p is the page that a load of plan and cs gives *)
Reconciled(plan, cs, p) ==
  /\ KeptThenMissing(PersistedSemesters(plan), parseClassStart(cs), p.semesters)
  /\ p.semesterSubjects = plan.semester_subjects
  /\ p.semesterDates = plan.semester_dates

(* C24: on load with a persisted plan (a plan the page has saved, which
   holds at least one semester) the page holds every persisted semester with
   its id at its position, followed by exactly one semester per distinct
   (year, term, class_number) of class_start that the persisted plan lacks,
   in class_start order, with ids greater than every persisted id;
   assignment lists and dates are those persisted. *)
C24_KeepsPersistedAppendsMissing ==
  /\ (db # NoPlan /\ Len(db.semesters) > 0) =>
       Reconciled(db, classStart, LoadPage(InitialPage, db, classStart, {}))
  /\ \A s \in DOMAIN page :
       (Ready(s) /\ db # NoPlan /\ Len(db.semesters) > 0 /\ hist.last = NoWrite) =>
         Reconciled(db, classStart, page[s])

(* a persisted plan of three semesters with assignments, loaded with a
   class_start of three cohorts that adds two semesters to it *)
C24_Witness ==
  /\ Ready(1) /\ db # NoPlan /\ hist.last = NoWrite
  /\ Len(db.semesters) = 3
  /\ Len(page[1].semesters) = 5
  /\ Len(parseClassStart(classStart)) = 3
  /\ page[1].semesterSubjects # EmptyObj

----------------------------------------------------------------------------
(* The practicum requirement tracker. *)

(* practiceCount === null *)
NoCount == [none |-> TRUE]

(* assignedIds.forEach((sid) => { const s = subjects.find(...);
   if (s?.subject_type === '필수') required++;
   if (s?.subject_type === '선택') elective++; }) *)
RECURSIVE CountAssigned(_, _, _)
CountAssigned(ids, catalog, count) ==
  IF ids = <<>> THEN count
  ELSE LET found == Head(ids) \in catalog
           type  == IF found THEN SubjectRow(Head(ids)).subject_type ELSE "null"
       IN  CountAssigned(Tail(ids), catalog,
             [required |-> count.required + (IF type = "required" THEN 1 ELSE 0),
              elective |-> count.elective + (IF type = "elective" THEN 1 ELSE 0)])

(* prevSubjects.forEach((s) => { if (s.category === '전공') elective++; }) *)
RECURSIVE CountPrev(_, _)
CountPrev(prev, count) ==
  IF prev = <<>> THEN count
  ELSE CountPrev(Tail(prev),
         [count EXCEPT !.elective = @ + (IF Head(prev).category = "major" THEN 1 ELSE 0)])

(* variant: a prior-institution major subject counts as required *)
practiceCount_PrevRequired(p) ==
  IF planConfig(p).practice = NoPractice THEN NoCount
  ELSE LET c == CountAssigned(assignedIds(p), p.subjects, [required |-> 0, elective |-> 0])
           n == Cardinality({i \in 1..Len(p.prevSubjects) : p.prevSubjects[i].category = "major"})
       IN  [c EXCEPT !.required = @ + n]

practiceCount(p) ==
  IF planConfig(p).practice = NoPractice THEN NoCount
  ELSE CountPrev(p.prevSubjects,
         CountAssigned(assignedIds(p), p.subjects, [required |-> 0, elective |-> 0]))

(* {planConfig.practice && practiceCount && (...)} *)
TrackerShown(p) ==
  planConfig(p).practice # NoPractice /\ practiceCount(p) # NoCount

(* practiceCount.required >= planConfig.practice.required: practice_item_done *)
RequiredDone(p) ==
  practiceCount(p).required >= planConfig(p).practice.required

ElectiveDone(p) ==
  practiceCount(p).elective >= planConfig(p).practice.elective

----------------------------------------------------------------------------
(* SpecPractice: the page opens for a practicum student (and for one who is
   not) with a plan that assigns subjects of each subject_type, one of them
   missing from the catalog, and with prior-institution subjects; subjects
   are assigned and unassigned, prior-institution subjects added and
   deleted. *)

PracticeSubjects == 1..7

PracticePlans ==
  {[semesters |-> INITIAL_SEMESTERS,
    semester_subjects |-> (0 :> a @@ 1 :> b),
    semester_dates |-> EmptyObj] :
     a \in {<<>>, <<3>>, <<2, 3>>, <<3, 4>>},
     b \in {<<>>, <<9>>, <<5, 7>>, <<6, 5, 7>>}}

PracticePrev ==
  {<<>>,
   << [id |-> 11, category |-> "major", credits |-> 3] >>,
   << [id |-> 11, category |-> "liberal", credits |-> 3],
      [id |-> 12, category |-> "major", credits |-> 2] >>}

PracticeStudents ==
  {[education_level |-> "grad4", course_name |-> <<"sil", "seup">>,
    desired_degree |-> Null, major |-> Null],
   [education_level |-> "grad4", course_name |-> NoName,
    desired_degree |-> Null, major |-> Null]}

InitPractice ==
  /\ page = [s \in {1} |-> InitialPage]
  /\ timers = [s \in {1} |-> {}]
  /\ ev = NoEvent
  /\ classStart = <<>>
  /\ db \in PracticePlans
  /\ inflight = {}
  /\ hist = [issued |-> 0, preset |-> EmptyObj]
  /\ \E st \in PracticeStudents, prev \in PracticePrev :
       rows = [NoRows EXCEPT !.student = st, !.subjects = PracticeSubjects, !.prev = prev]

NextPractice ==
  \/ OpsOpen
  \/ DoSubjectClick
  \/ DoRemoveAssigned
  \/ OpsAddGubupSubject
  \/ OpsAddPrevSubject
  \/ OpsDeletePrevSubject
  \/ OpsAnswer

SpecPractice == InitPractice /\ [][NextPractice]_vars

(* C25: under the practicum profile the required count is the number of
   assigned ids whose catalog subject has subject_type 필수, the elective
   count the number of assigned ids whose subject has subject_type 선택 plus
   the number of prior-institution subjects of category 전공; one more
   prior-institution subject, of any category, leaves the required count as
   it is; each requirement is flagged done exactly when its count has
   reached its target (4 required, 2 elective). *)
C25_PracticeCounts ==
  \A s \in DOMAIN page :
    (Ready(s) /\ HasPracticeMarker(page[s].student.course_name)) =>
      LET p   == page[s]
          ids == assignedIds(p)
          OfType(t) == {i \in 1..Len(ids) :
                          ids[i] \in p.subjects /\ SubjectRow(ids[i]).subject_type = t}
          majors == {i \in 1..Len(p.prevSubjects) : p.prevSubjects[i].category = "major"}
      IN  /\ TrackerShown(p)
          /\ practiceCount(p).required = Cardinality(OfType("required"))
          /\ practiceCount(p).elective = Cardinality(OfType("elective")) + Cardinality(majors)
          /\ \A c \in Range(SubjectCategories) :
               practiceCount([p EXCEPT !.prevSubjects =
                                Append(@, [id |-> 0, category |-> c, credits |-> 3])]).required
                 = practiceCount(p).required
          /\ RequiredDone(p) <=> Cardinality(OfType("required")) >= 4
          /\ ElectiveDone(p) <=> Cardinality(OfType("elective")) + Cardinality(majors) >= 2

(* a practicum student with four required subjects assigned, an assigned id
   that the catalog lacks, an assigned subject without subject_type, and a
   prior-institution major subject that has just been added: the required
   item is done, the elective count includes the prior-institution subject *)
C25_Witness ==
  /\ Ready(1) /\ HasPracticeMarker(page[1].student.course_name)
  /\ ev.op = "answer" /\ ev.call = "addPrev" /\ ev.ok
  /\ practiceCount(page[1]).required = 4
  /\ RequiredDone(page[1]) /\ ElectiveDone(page[1])
  /\ \E i \in 1..Len(page[1].prevSubjects) : page[1].prevSubjects[i].category = "major"
  /\ 4 \in Range(assignedIds(page[1]))
  /\ 1 \in Range(assignedIds(page[1]))

----------------------------------------------------------------------------
(* C26 (as claimed): once the page has loaded, the selected semester id is
   the id of a semester of the plan, whatever plan was persisted. *)
C26_SelectionInPlan ==
  \A s \in DOMAIN page :
    Ready(s) => page[s].selectedSemester \in SemIds(page[s].semesters)

----------------------------------------------------------------------------
(* C27 (as claimed): once the page has loaded a consistent plan, every key
   of the assignment map that holds a non-empty list is the id of a semester
   of the plan. *)
C27_NoOrphanAssignments ==
  \A s \in DOMAIN page :
    Ready(s) =>
      \A k \in DOMAIN page[s].semesterSubjects :
        page[s].semesterSubjects[k] # <<>> => k \in SemIds(page[s].semesters)

----------------------------------------------------------------------------
(* r is p without the semesters of the group (year, term), their assignment
   lists and their dates, all else of the plan as in p *)
GroupRemoved(p, r, year, term) ==
  LET gone == {x.id : x \in {y \in Range(p.semesters) : y.year = year /\ y.term = term}}
      Other(x) == ~(x.year = year /\ x.term = term)
  IN  /\ \A i \in 1..Len(r.semesters) :
           ~(r.semesters[i].year = year /\ r.semesters[i].term = term)
      /\ r.semesters = Filter(p.semesters, Other)
      /\ DOMAIN r.semesterSubjects = DOMAIN p.semesterSubjects \ gone
      /\ \A k \in DOMAIN r.semesterSubjects : r.semesterSubjects[k] = p.semesterSubjects[k]
      /\ DOMAIN r.semesterDates = DOMAIN p.semesterDates \ gone
      /\ \A k \in DOMAIN r.semesterDates : r.semesterDates[k] = p.semesterDates[k]

(* C28 (as claimed): the delete button of a group tab, shown when the plan
   has more semesters than the group, leaves no semester of that
   (year, term) in the list, keeps every semester of the other groups, and
   removes exactly the assignment lists and dates of the removed semesters. *)
C28_TabDeleteRemovesGroup ==
  \A s \in DOMAIN page :
    Ready(s) =>
      \A key \in GroupKeys(page[s].semesters) :
        Len(page[s].semesters) > Len(GroupOf(page[s].semesters, key[1], key[2])) =>
          GroupRemoved(page[s], TabDelete(page[s], key[1], key[2]), key[1], key[2])

----------------------------------------------------------------------------
(* C29 (as claimed): no two semesters of the plan have the same
   (year, term, class_number). *)
C29_CohortsDistinct ==
  \A s \in DOMAIN page :
    Ready(s) =>
      \A i, j \in 1..Len(page[s].semesters) :
        (page[s].semesters[i].year = page[s].semesters[j].year
           /\ page[s].semesters[i].term = page[s].semesters[j].term
           /\ page[s].semesters[i].class_number = page[s].semesters[j].class_number)
          => i = j

----------------------------------------------------------------------------
(* the entries of list that a preset toggle inserted (hist.preset records
   the preset of each inserted id, Null for an entry typed by hand), with
   this stage and subject name *)
ToggledEntries(list, stage, name) ==
  {i \in 1..Len(list) :
     /\ list[i].stage = stage /\ list[i].subject_name = name
     /\ list[i].id \in DOMAIN hist.preset
     /\ hist.preset[list[i].id] # Null}

(* C30 (as claimed): whatever the order of preset toggles and storage
   answers, storage and the in-memory list hold at most one entry that a
   toggle inserted for a given (stage, subject name). *)
C30_ToggleAtMostOneEntry ==
  \A stage \in DokaksaStages : \A preset \in DokaksaPresets :
    /\ Cardinality(ToggledEntries(rows.dokaksa, stage, preset.name)) <= 1
    /\ \A s \in DOMAIN page :
         Cardinality(ToggledEntries(page[s].dokaksaList, stage, preset.name)) <= 1

====
